---- MODULE Spec2Model ----
(***************************************************************************)
(* A model of the retrieval pipeline of raggy: the persistent vector store *)
(* (core/vector-db.ts), the embedding service (core/embeddings.ts), the    *)
(* process-wide cache (utils/cache.ts) and RAGService.query                *)
(* (core/rag-service.ts).                                                  *)
(*                                                                         *)
(* Numbers.  TLC has no reals: a similarity score x in [-1, 1] is held as  *)
(* the reduced fraction n/d = sign(x) * x^2 (d > 0).  x |-> sign(x) * x^2  *)
(* is strictly increasing, so order and equality of scores are those of    *)
(* the fractions; floating-point rounding is not modelled.                 *)
(***************************************************************************)
EXTENDS Integers, Sequences, FiniteSets, TLC

(***************************************************************************)
(* Bounds of the model.                                                    *)
(***************************************************************************)
MaxRecords == 2   \* records the store may hold, all collections together
MaxBatch == 2     \* passages of one addDocuments call
MaxSearchDocs == 3   \* records of the collection searched in SpecSearch
MaxTexts == 3     \* texts of one generateEmbeddings call
BATCH_SIZE == 2   \* texts of one batch of generateEmbeddings (50 in the source)
\* characters in a text given to the chunker
MaxTextLen == 6
\* the largest chunk size and overlap passed to the chunker
MaxSize == 4
\* config.rag.chunkSize and config.rag.chunkOverlap (1000 and 200 in the source)
chunkSize == 4
chunkOverlap == 2

(***************************************************************************)
(* JavaScript values.                                                      *)
(***************************************************************************)
Undef == "undefined"

\* o[k] of a JS object: a key that is not there reads as undefined.
Prop(o, k) == IF k \in DOMAIN o THEN o[k] ELSE Undef

\* Map.delete(name)
MapDelete(m, name) == [k \in (DOMAIN m) \ {name} |-> m[k]]

\* Map.set(name, value)
MapSet(m, name, value) == [k \in (DOMAIN m) \cup {name} |-> IF k = name THEN value ELSE m[k]]

EmptyMap == [k \in {} |-> {}]

(***************************************************************************)
(* Vectors and cosine similarity.                                          *)
(***************************************************************************)
Abs(x) == IF x < 0 THEN -x ELSE x

RECURSIVE Gcd(_, _)
Gcd(a, b) == IF b = 0 THEN a ELSE Gcd(b, a % b)

\* The score dot / sqrt(nn) (nn > 0) as the reduced fraction of sign * dot^2 / nn.
Frac(dot, nn) ==
  LET g == Gcd(dot * dot, nn)
  IN  [n |-> (IF dot < 0 THEN -1 ELSE 1) * ((dot * dot) \div g), d |-> nn \div g]

Zero == [n |-> 0, d |-> 1]
One == [n |-> 1, d |-> 1]

\* s < t and s <= t on scores
ScoreLess(s, t) == s.n * t.d < t.n * s.d
ScoreLeq(s, t) == s.n * t.d <= t.n * s.d

RECURSIVE SumTo(_, _, _, _)
\* the accumulation loop of cosineSimilarity: sum of a[j] * b[j] for j in i..Len(a)
SumTo(a, b, i, acc) ==
  IF i > Len(a) THEN acc ELSE SumTo(a, b, i + 1, acc + a[i] * b[i])

\* the dot product alone, as if the vectors were known to be of length 1
cosineSimilarityDotOnly(a, b) ==
  IF Len(a) # Len(b) THEN Zero
  ELSE LET dotProduct == SumTo(a, b, 1, 0)
           normA == SumTo(a, a, 1, 0)
           normB == SumTo(b, b, 1, 0)
       IN  IF normA = 0 \/ normB = 0 THEN Zero
           ELSE Frac(dotProduct, 1)

cosineSimilarity(a, b) ==
  IF Len(a) # Len(b) THEN Zero
  ELSE LET dotProduct == SumTo(a, b, 1, 0)
           normA == SumTo(a, a, 1, 0)
           normB == SumTo(b, b, 1, 0)
       IN  IF normA = 0 \/ normB = 0 THEN Zero
           ELSE Frac(dotProduct, normA * normB)

(***************************************************************************)
(* Stored documents and their JSON form.                                   *)
(***************************************************************************)
MetaKeys == {"source", "page", "documentType"}

\* x || 0 (a number is held as its decimal text)
OrZero(x) == IF x = Undef \/ x = "0" THEN "0" ELSE x

\* the StoredDocument addDocuments builds from chunks[i] and embeddings[i]
StoredDocument(chunk, embedding) ==
  [id |-> chunk.id,
   content |-> chunk.content,
   embedding |-> embedding,
   metadata |-> [source |-> chunk.metadata.source,
                 page |-> OrZero(Prop(chunk.metadata, "page")),
                 documentType |-> Prop(chunk.metadata, "documentType")]]

\* JSON.stringify of an object: a key whose value is undefined is left out
JsonObject(o) == [k \in {x \in DOMAIN o : o[x] # Undef} |-> o[k]]

JsonDocument(doc) ==
  [id |-> doc.id, content |-> doc.content, embedding |-> doc.embedding,
   metadata |-> JsonObject(doc.metadata)]

\* JSON.stringify(collection, null, 2): the text of a backing file
JsonStringify(collection) == [i \in 1..Len(collection) |-> JsonDocument(collection[i])]

\* The two documents read alike: every property of the one has the value it has in the other.
SameDocument(a, b) ==
  /\ a.id = b.id
  /\ a.content = b.content
  /\ a.embedding = b.embedding
  /\ \A k \in MetaKeys : Prop(a.metadata, k) = Prop(b.metadata, k)

SameCollection(x, y) ==
  /\ Len(x) = Len(y)
  /\ \A i \in 1..Len(x) : SameDocument(x[i], y[i])

(***************************************************************************)
(* The storage directory: one file per collection name.                    *)
(***************************************************************************)
Names == {"t", "u"}
NoFile == [kind |-> "nofile", text |-> <<>>]     \* <name>.json does not exist
Corrupt == [kind |-> "corrupt", text |-> <<>>]   \* <name>.json exists and JSON.parse throws on it
JsonFile(text) == [kind |-> "json", text |-> text]

IsJson(file) == file.kind = "json"

VARIABLES
  disk,          \* name -> NoFile, Corrupt or JsonFile(text)
  collections,   \* PersistentVectorDB.collections
  initialized,   \* PersistentVectorDB.initialized
  faulted,       \* a file operation has failed (the model injects one failure per run)
  ret,           \* the last call: operation, arguments, outcome, value returned
  embInitialized,  \* LocalEmbeddingService.initialized
  ragInitialized,  \* RAGService.initialized
  extractor,       \* LocalEmbeddingService.extractor
  embCache,        \* the cache's entries "embedding:<hash>"
  searchCache,     \* the cache's entries "search:<collection>:<hash>"
  call             \* caller -> the embedding call it is in

storeVars == <<disk, collections, initialized, faulted>>
embedVars == <<embInitialized, ragInitialized, extractor, embCache, call>>
vars == <<disk, collections, initialized, faulted, ret,
          embInitialized, ragInitialized, extractor, embCache, searchCache, call>>

Null == "null"

\* What a call returned: op and its arguments, ok = FALSE when it threw, val the value
\* returned, io the outcome of the file operation it attempted.
Ret(op, name, args, ok, val, io) ==
  [op |-> op, name |-> name, args |-> args, ok |-> ok, val |-> val, io |-> io]

\* JSON.parse of a backing file: the array of objects with the keys the text holds
JsonParse(text) == text

\* loadCollectionsFromDisk: every <name>.json that parses is set in the map; one that
\* does not parse is skipped.
loadCollectionsFromDisk(d, cols) ==
  [k \in (DOMAIN cols) \cup {n \in Names : IsJson(d[n])} |->
     IF IsJson(d[k]) THEN JsonParse(d[k].text) ELSE cols[k]]

\* ensureInitialized / initialize: the map after the first-use load
ensureInitialized(isInit, d, cols) ==
  IF isInit THEN cols ELSE loadCollectionsFromDisk(d, cols)

\* saveCollectionToDisk: io is what writeFileSync does ("ok", or "failed": it throws and
\* leaves the file as it was).  The catch block logs the error; nothing is thrown to
\* the caller.
saveCollectionToDisk(d, cols, collectionName, io) ==
  IF collectionName \notin DOMAIN cols THEN [disk |-> d, thrown |-> FALSE]
  ELSE IF io = "ok"
    THEN [disk |-> [d EXCEPT ![collectionName] = JsonFile(JsonStringify(cols[collectionName]))],
          thrown |-> FALSE]
  ELSE [disk |-> d, thrown |-> FALSE]

RECURSIVE PushAllDedup(_, _, _, _)
\* a loop that skips a chunk whose id the collection already holds
PushAllDedup(collection, chunks, embeddings, i) ==
  IF i > Len(chunks) THEN collection
  ELSE IF \E j \in 1..Len(collection) : collection[j].id = chunks[i].id
    THEN PushAllDedup(collection, chunks, embeddings, i + 1)
  ELSE PushAllDedup(Append(collection, StoredDocument(chunks[i], embeddings[i])),
                    chunks, embeddings, i + 1)

RECURSIVE PushAll(_, _, _, _)
\* the loop of addDocuments: collection.push(doc) for i = 0 .. chunks.length - 1
PushAll(collection, chunks, embeddings, i) ==
  IF i > Len(chunks) THEN collection
  ELSE PushAll(Append(collection, StoredDocument(chunks[i], embeddings[i])),
               chunks, embeddings, i + 1)

\* collection.map(doc => ({doc, score}))
Similarities(collection, queryEmbedding) ==
  [i \in 1..Len(collection) |->
     [doc |-> collection[i], score |-> cosineSimilarity(queryEmbedding, collection[i].embedding)]]

RECURSIVE InsertDescUnstable(_, _)
\* an insertion that puts item in front of the elements of equal score
InsertDescUnstable(sorted, item) ==
  IF sorted = <<>> THEN <<item>>
  ELSE IF ScoreLeq(Head(sorted).score, item.score) THEN <<item>> \o sorted
  ELSE <<Head(sorted)>> \o InsertDescUnstable(Tail(sorted), item)

RECURSIVE InsertDesc(_, _)
\* item goes behind every element whose score is >= its own
InsertDesc(sorted, item) ==
  IF sorted = <<>> THEN <<item>>
  ELSE IF ScoreLess(Head(sorted).score, item.score) THEN <<item>> \o sorted
  ELSE <<Head(sorted)>> \o InsertDesc(Tail(sorted), item)

RECURSIVE SortDesc(_, _)
\* similarities.sort((a, b) => b.score - a.score): a stable sort, descending by score
SortDesc(items, i) ==
  IF i = 0 THEN <<>> ELSE InsertDesc(SortDesc(items, i - 1), items[i])

\* Array.prototype.slice(0, end)
Slice0(s, end) ==
  LET k == IF end < 0 THEN (IF Len(s) + end < 0 THEN 0 ELSE Len(s) + end)
           ELSE IF end > Len(s) THEN Len(s) ELSE end
  IN  SubSeq(s, 1, k)

\* a search that reads the collection without asking whether the map has it
searchNoHasCheck(cols, collectionName, queryEmbedding, limit) ==
  IF collectionName \notin DOMAIN cols THEN [ok |-> FALSE, val |-> Undef]
  ELSE LET similarities == Similarities(cols[collectionName], queryEmbedding)
           topResults == Slice0(SortDesc(similarities, Len(similarities)), limit)
       IN  [ok |-> TRUE,
            val |-> [i \in 1..Len(topResults) |->
                       [content |-> topResults[i].doc.content,
                        score |-> topResults[i].score,
                        metadata |-> topResults[i].doc.metadata]]]

\* the try block of search on the loaded map: ok = FALSE when it throws, val the
\* SearchResult[] returned
search(cols, collectionName, queryEmbedding, limit) ==
  IF collectionName \notin DOMAIN cols THEN [ok |-> TRUE, val |-> <<>>]
  ELSE IF Len(cols[collectionName]) = 0 THEN [ok |-> TRUE, val |-> <<>>]
  ELSE LET similarities == Similarities(cols[collectionName], queryEmbedding)
           topResults == Slice0(SortDesc(similarities, Len(similarities)), limit)
       IN  [ok |-> TRUE,
            val |-> [i \in 1..Len(topResults) |->
                       [content |-> topResults[i].doc.content,
                        score |-> topResults[i].score,
                        metadata |-> topResults[i].doc.metadata]]]

\* Array.from(this.collections.keys())
listCollections(cols) == DOMAIN cols

\* the value getCollectionStats returns
getCollectionStats(cols, name) ==
  IF name \notin DOMAIN cols THEN Null ELSE [name |-> name, count |-> Len(cols[name])]

(***************************************************************************)
(* The cache keys (Cache.hashString) and the embedding model.              *)
(***************************************************************************)
\* A text is the sequence of its char codes.
TextAa == <<65, 97>>    \* "Aa"
TextBB == <<66, 66>>    \* "BB"
TextC == <<67>>         \* "C"
Texts == {TextAa, TextBB, TextC}

\* hash & hash: the 32-bit integer of x.  The texts of the model keep the hash
\* below 2^31, where it is x itself.
ToInt32(x) == x

RECURSIVE HashFrom(_, _, _)
\* the loop of hashString: hash = ((hash << 5) - hash) + char; hash = hash & hash
HashFrom(str, i, hash) ==
  IF i > Len(str) THEN hash
  ELSE HashFrom(str, i + 1, ToInt32((ToInt32(hash * 32) - hash) + str[i]))

RECURSIVE Base36(_)
\* Number.prototype.toString(36) of n >= 0: the digits, most significant first
Base36(n) == IF n < 36 THEN <<n>> ELSE Append(Base36(n \div 36), n % 36)

hashString(str) == Base36(Abs(HashFrom(str, 1, 0)))

\* `embedding:${this.hashString(text)}`
EmbeddingKey(text) == <<"embedding", hashString(text)>>

\* `search:${collection}:${this.hashString(query)}`
SearchKey(query, collection) == <<"search", collection, hashString(query)>>

\* The embedding model (extractor with pooling 'mean', normalize true): the direction
\* of the vector it returns for a text.
Extractor(text) ==
  IF text = TextAa THEN <<1, 0>> ELSE IF text = TextBB THEN <<0, 1>> ELSE <<1, 1>>

(***************************************************************************)
(* The embedding service (LocalEmbeddingService).  A caller is a task in   *)
(* generateEmbeddings ("many") or generateQueryEmbedding ("one"); a step   *)
(* runs one of them from one await to the next.                            *)
(***************************************************************************)
Callers == {"index", "query"}

\* the texts of the generateEmbeddings calls and of the generateQueryEmbedding calls
IndexTexts == {TextBB, TextC}
QueryTexts == {TextAa}
TextSeqs == UNION {[1..n -> IndexTexts] : n \in 0..MaxTexts}

\* no error thrown; new Error(`${message}: ${cause.message}`)
NoError == [message |-> "", cause |-> ""]
Thrown(message, cause) == [message |-> message, cause |-> cause]

\* the message of the error a call of this kind throws from its catch block
FailedMessage(kind) ==
  IF kind = "one" THEN "Failed to generate query embedding"
  ELSE "Failed to generate embeddings"

IdleCall ==
  [pc |-> "idle", kind |-> "none", texts |-> <<>>, batchStart |-> 0, slots |-> <<>>,
   embeddings |-> <<>>, result |-> <<>>, error |-> NoError]

InitEmbedding ==
  /\ embInitialized = FALSE
  /\ ragInitialized = FALSE
  /\ extractor = Null
  /\ embCache = EmptyMap
  /\ call = [p \in Callers |-> IdleCall]

\* cache.getEmbedding(text): the entry, or undefined
getEmbedding(cache, text) == Prop(cache, EmbeddingKey(text))

\* cache.setEmbedding(text, embedding)
setEmbedding(cache, text, embedding) == MapSet(cache, EmbeddingKey(text), embedding)

\* a batch whose callbacks invoke the extractor without looking in the cache
StartBatchNoCache(texts, batchStart, cache) ==
  LET batchEnd == IF batchStart + BATCH_SIZE < Len(texts)
                    THEN batchStart + BATCH_SIZE ELSE Len(texts)
  IN  [i \in 1..(batchEnd - batchStart) |-> [st |-> "pending", v |-> <<>>]]

\* batch.map(async (text) => ...) up to the first await of each callback: a cache hit
\* resolves with the cached vector, a miss invokes the extractor and waits for it
StartBatch(texts, batchStart, cache) ==
  LET batchEnd == IF batchStart + BATCH_SIZE < Len(texts)
                    THEN batchStart + BATCH_SIZE ELSE Len(texts)
  IN  [i \in 1..(batchEnd - batchStart) |->
         IF EmbeddingKey(texts[batchStart + i]) \in DOMAIN cache
           THEN [st |-> "hit", v |-> getEmbedding(cache, texts[batchStart + i])]
           ELSE [st |-> "pending", v |-> <<>>]]

\* embeddings.unshift(...batchEmbeddings)
PushBatchInFront(embeddings, batchEmbeddings) == batchEmbeddings \o embeddings

\* embeddings.push(...batchEmbeddings)
PushBatch(embeddings, batchEmbeddings) == embeddings \o batchEmbeddings

HasPending(c) == \E i \in 1..Len(c.slots) : c.slots[i].st = "pending"

\* generateEmbeddings(texts) / generateQueryEmbedding(text) is called: ensureInitialized
\* returns at once when initialized is set and starts a model load when it is not.
StartCall(p, kind, texts) ==
  /\ call[p].pc \in {"idle", "done", "failed"}
  /\ ~HasPending(call[p])
  /\ call' = [call EXCEPT ![p] =
                [IdleCall EXCEPT !.pc = IF embInitialized THEN "ready" ELSE "loading",
                                 !.kind = kind, !.texts = texts]]
  /\ UNCHANGED <<embInitialized, ragInitialized, extractor, embCache, searchCache, storeVars, ret>>

\* pipeline('feature-extraction', model) of caller p settles
LoadDone(p, ok) ==
  /\ call[p].pc = "loading"
  /\ IF ok
       THEN /\ extractor' = "model"
            /\ embInitialized' = TRUE
            /\ ragInitialized' = ragInitialized
            /\ call' = [call EXCEPT ![p].pc = "ready"]
       ELSE /\ call' = [call EXCEPT ![p].pc = "failed",
                                        ![p].error = Thrown("Embedding model initialization failed",
                                                            "pipeline")]
            /\ UNCHANGED <<extractor, embInitialized, ragInitialized>>
  /\ UNCHANGED <<embCache, searchCache, storeVars, ret>>

\* the body after await ensureInitialized(): the first batch is issued
Begin(p) ==
  /\ call[p].pc = "ready"
  /\ call' = [call EXCEPT ![p] =
       IF Len(call[p].texts) = 0
         THEN [@ EXCEPT !.pc = "done", !.result = <<>>]
         ELSE [@ EXCEPT !.pc = "batch", !.slots = StartBatch(call[p].texts, 0, embCache)]]
  /\ UNCHANGED <<embInitialized, ragInitialized, extractor, embCache, searchCache, storeVars, ret>>

\* callbacks that catch the extractor's error and resolve with nothing
ExtractDoneSwallow(p, i, ok) ==
  /\ i \in 1..Len(call[p].slots)
  /\ call[p].slots[i].st = "pending"
  /\ LET text == call[p].texts[call[p].batchStart + i]
     IN  IF ok
           THEN /\ embCache' = setEmbedding(embCache, text, Extractor(text))
                /\ call' = [call EXCEPT ![p].slots[i] = [st |-> "done", v |-> Extractor(text)]]
           ELSE /\ embCache' = embCache
                /\ call' = [call EXCEPT ![p].slots[i] = [st |-> "done", v |-> <<>>]]
  /\ UNCHANGED <<embInitialized, ragInitialized, extractor, searchCache, storeVars, ret>>

\* the extractor invocation of the i-th text of p's batch settles: on success the
\* vector is cached and the callback resolves; on failure Promise.all rejects and the
\* call throws, while the other invocations of the batch go on
ExtractDone(p, i, ok) ==
  /\ i \in 1..Len(call[p].slots)
  /\ call[p].slots[i].st = "pending"
  /\ LET text == call[p].texts[call[p].batchStart + i]
     IN  IF ok
           THEN /\ embCache' = setEmbedding(embCache, text, Extractor(text))
                /\ call' = [call EXCEPT ![p].slots[i] = [st |-> "done", v |-> Extractor(text)]]
           ELSE /\ embCache' = embCache
                /\ call' = [call EXCEPT ![p].slots[i] = [st |-> "failed", v |-> <<>>],
                                        ![p].pc = IF @ = "batch" THEN "failed" ELSE @,
                                        ![p].error =
                                          IF call[p].pc = "batch"
                                            THEN Thrown(FailedMessage(call[p].kind), "extractor")
                                            ELSE @]
  /\ UNCHANGED <<embInitialized, ragInitialized, extractor, searchCache, storeVars, ret>>

\* a loop that goes on to the next batch as soon as one callback of the batch has resolved
FinishBatchEarly(p) ==
  /\ call[p].pc = "batch"
  /\ \E i \in 1..Len(call[p].slots) : call[p].slots[i].st \in {"hit", "done"}
  /\ \A i \in 1..Len(call[p].slots) : call[p].slots[i].st # "failed"
  /\ LET c == call[p]
         embeddings == PushBatch(c.embeddings, [i \in 1..Len(c.slots) |-> c.slots[i].v])
         batchStart == c.batchStart + BATCH_SIZE
     IN  call' = [call EXCEPT ![p] =
           IF batchStart < Len(c.texts)
             THEN [c EXCEPT !.batchStart = batchStart, !.embeddings = embeddings,
                            !.slots = StartBatch(c.texts, batchStart, embCache)]
             ELSE [c EXCEPT !.pc = "done", !.slots = <<>>, !.embeddings = embeddings,
                            !.result = IF c.kind = "one" THEN embeddings[1] ELSE embeddings]]
  /\ UNCHANGED <<embInitialized, ragInitialized, extractor, embCache, searchCache, storeVars, ret>>

\* Promise.all of p's batch resolves: the batch is pushed and the next one issued, or
\* the embeddings are returned
FinishBatch(p) ==
  /\ call[p].pc = "batch"
  /\ \A i \in 1..Len(call[p].slots) : call[p].slots[i].st \in {"hit", "done"}
  /\ LET c == call[p]
         embeddings == PushBatch(c.embeddings, [i \in 1..Len(c.slots) |-> c.slots[i].v])
         batchStart == c.batchStart + BATCH_SIZE
     IN  call' = [call EXCEPT ![p] =
           IF batchStart < Len(c.texts)
             THEN [c EXCEPT !.batchStart = batchStart, !.embeddings = embeddings,
                            !.slots = StartBatch(c.texts, batchStart, embCache)]
             ELSE [c EXCEPT !.pc = "done", !.slots = <<>>, !.embeddings = embeddings,
                            !.result = IF c.kind = "one" THEN embeddings[1] ELSE embeddings]]
  /\ UNCHANGED <<embInitialized, ragInitialized, extractor, embCache, searchCache, storeVars, ret>>

\* an entry of the cache expires (stdTTL) or the cache is cleared
ExpireEmbedding(key) ==
  /\ key \in DOMAIN embCache
  /\ embCache' = MapDelete(embCache, key)
  /\ UNCHANGED <<embInitialized, ragInitialized, extractor, call, searchCache, storeVars, ret>>

InitEmbed ==
  /\ InitEmbedding
  /\ disk = [c \in Names |-> NoFile]
  /\ collections = EmptyMap
  /\ initialized = FALSE
  /\ faulted = FALSE
  /\ ret = Ret("new", Null, <<>>, TRUE, Undef, "none")
  /\ searchCache = EmptyMap

NextEmbed ==
  \/ \E texts \in TextSeqs : StartCall("index", "many", texts)
  \/ \E text \in QueryTexts : StartCall("query", "one", <<text>>)
  \/ \E p \in Callers, ok \in BOOLEAN : LoadDone(p, ok)
  \/ \E p \in Callers : Begin(p)
  \/ \E p \in Callers, i \in 1..BATCH_SIZE, ok \in BOOLEAN : ExtractDone(p, i, ok)
  \/ \E p \in Callers : FinishBatch(p)
  \/ \E key \in DOMAIN embCache : ExpireEmbedding(key)

SpecEmbed == InitEmbed /\ [][NextEmbed]_vars

(***************************************************************************)
(* Inputs of the store's calls.                                            *)
(***************************************************************************)
ChunkA == [id |-> "d1_chunk_0", content |-> "alpha",
           metadata |-> [source |-> "a.txt", page |-> "1", documentType |-> "txt"]]
\* a chunk whose page and documentType are undefined
ChunkB == [id |-> "d2_chunk_0", content |-> "beta", metadata |-> [source |-> "b.pdf"]]

VecA == <<1, 0>>
VecB == <<1, 1>>

\* passage/vector pairs
Items == {<<ChunkA, VecA>>, <<ChunkB, VecB>>}

\* the (chunks, embeddings) arguments of one addDocuments call
Batches ==
  UNION {{[chunks |-> [i \in 1..n |-> f[i][1]], embeddings |-> [i \in 1..n |-> f[i][2]]] :
            f \in [1..n -> Items]} : n \in 0..MaxBatch}

StoreQueries == {VecA, VecB}
StoreLimits == {1}
WriteOutcomes == {"ok", "failed"}

RECURSIVE TotalRecords(_, _)
\* the number of records of the collections named in S
TotalRecords(cols, S) ==
  IF S = {} THEN 0
  ELSE LET c == CHOOSE x \in S : TRUE
       IN  Len(cols[c]) + TotalRecords(cols, S \ {c})

(***************************************************************************)
(* The vector store (PersistentVectorDB).  Each action is one call, from   *)
(* its ensureInitialized to its return.                                    *)
(***************************************************************************)
InitStore ==
  /\ disk \in [Names -> {NoFile, Corrupt}]
  /\ collections = EmptyMap
  /\ initialized = FALSE
  /\ faulted = FALSE
  /\ ret = Ret("new", Null, <<>>, TRUE, Undef, "none")
  /\ InitEmbedding
  /\ searchCache = EmptyMap

AddDocuments(collectionName, chunks, embeddings, io) ==
  LET cols0 == ensureInitialized(initialized, disk, collections)
      collection == IF collectionName \in DOMAIN cols0 THEN cols0[collectionName] ELSE <<>>
      cols1 == MapSet(cols0, collectionName, PushAll(collection, chunks, embeddings, 1))
      saved == saveCollectionToDisk(disk, cols1, collectionName, io)
  IN  /\ TotalRecords(cols0, DOMAIN cols0) + Len(chunks) <= MaxRecords
      /\ io # "ok" => ~faulted
      /\ faulted' = (faulted \/ io # "ok")
      /\ initialized' = TRUE
      /\ collections' = cols1
      /\ disk' = saved.disk
      /\ ret' = Ret("addDocuments", collectionName, <<>>, ~saved.thrown, Undef, io)
      /\ UNCHANGED <<embedVars, searchCache>>

Search(collectionName, queryEmbedding, limit) ==
  LET cols0 == ensureInitialized(initialized, disk, collections)
      found == search(cols0, collectionName, queryEmbedding, limit)
  IN  /\ initialized' = TRUE
      /\ collections' = cols0
      /\ ret' = Ret("search", collectionName, <<queryEmbedding, limit>>, found.ok,
                    found.val, "none")
      /\ UNCHANGED <<disk, faulted, embedVars, searchCache>>

\* a delete that unlinks the file without asking whether it exists
DeleteCollectionNoExistsCheck(name, io) ==
  LET cols0 == ensureInitialized(initialized, disk, collections)
      exists == disk[name] # NoFile
  IN  /\ io # "ok" => (exists /\ ~faulted)
      /\ faulted' = (faulted \/ io # "ok")
      /\ initialized' = TRUE
      /\ collections' = MapDelete(cols0, name)
      /\ disk' = IF exists /\ io = "ok" THEN [disk EXCEPT ![name] = NoFile] ELSE disk
      /\ ret' = Ret("deleteCollection", name, <<>>, exists /\ io = "ok", Undef,
                    IF exists THEN io ELSE "none")
      /\ UNCHANGED <<embedVars, searchCache>>

\* io is what unlinkSync does when the file exists: "ok", or "failed" (it throws)
DeleteCollection(name, io) ==
  LET cols0 == ensureInitialized(initialized, disk, collections)
      exists == disk[name] # NoFile
  IN  /\ io # "ok" => (exists /\ ~faulted)
      /\ faulted' = (faulted \/ io # "ok")
      /\ initialized' = TRUE
      /\ collections' = MapDelete(cols0, name)
      /\ disk' = IF exists /\ io = "ok" THEN [disk EXCEPT ![name] = NoFile] ELSE disk
      /\ ret' = Ret("deleteCollection", name, <<>>, io = "ok", Undef,
                    IF exists THEN io ELSE "none")
      /\ UNCHANGED <<embedVars, searchCache>>

ListCollections ==
  LET cols0 == ensureInitialized(initialized, disk, collections)
  IN  /\ initialized' = TRUE
      /\ collections' = cols0
      /\ ret' = Ret("listCollections", Null, <<>>, TRUE, listCollections(cols0), "none")
      /\ UNCHANGED <<disk, faulted, embedVars, searchCache>>

GetCollectionStats(name) ==
  LET cols0 == ensureInitialized(initialized, disk, collections)
  IN  /\ initialized' = TRUE
      /\ collections' = cols0
      /\ ret' = Ret("getCollectionStats", name, <<>>, TRUE,
                    getCollectionStats(cols0, name), "none")
      /\ UNCHANGED <<disk, faulted, embedVars, searchCache>>

\* The process ends and a new one starts: a fresh PersistentVectorDB over the same directory.
Restart ==
  /\ collections' = EmptyMap
  /\ initialized' = FALSE
  /\ ret' = Ret("new", Null, <<>>, TRUE, Undef, "none")
  /\ UNCHANGED <<disk, faulted, embedVars, searchCache>>

NextStore ==
  \/ \E c \in Names, b \in Batches, io \in WriteOutcomes :
       AddDocuments(c, b.chunks, b.embeddings, io)
  \/ \E c \in Names, q \in StoreQueries, l \in StoreLimits : Search(c, q, l)
  \/ \E c \in Names, io \in {"ok", "failed"} : DeleteCollection(c, io)
  \/ ListCollections
  \/ \E c \in Names : GetCollectionStats(c)
  \/ Restart

Spec == InitStore /\ [][NextStore]_vars

(***************************************************************************)
(* Claims about the vector store.                                          *)
(***************************************************************************)
\* the collections a fresh PersistentVectorDB loads from the storage directory
FreshLoad == loadCollectionsFromDisk(disk, EmptyMap)

\* C1: after a completed addDocuments or deleteCollection call on a collection, a fresh
\* store that loads the storage directory holds that collection exactly when the
\* original store holds it in memory, with the same records in the same order.
C1_FreshLoadEqualsMemory ==
  (ret.op \in {"addDocuments", "deleteCollection"} /\ ret.ok) =>
     /\ ret.name \in DOMAIN FreshLoad <=> ret.name \in DOMAIN collections
     /\ ret.name \in DOMAIN collections =>
          SameCollection(FreshLoad[ret.name], collections[ret.name])

\* C2: an addDocuments call leaves the records the collection held where they were and
\* puts behind them one record per passage/vector pair, in input order: the count
\* grows by the number of passages, also when the content is already there.
C2_AppendsInInputOrder ==
  [][ret'.op = "addDocuments" =>
       LET c == ret'.name
           cols0 == ensureInitialized(initialized, disk, collections)
           old == IF c \in DOMAIN cols0 THEN cols0[c] ELSE <<>>
           new == collections'[c]
       IN  \A b \in Batches :
             AddDocuments(c, b.chunks, b.embeddings, ret'.io) =>
               /\ Len(new) = Len(old) + Len(b.chunks)
               /\ \A i \in 1..Len(old) : new[i] = old[i]
               /\ \A j \in 1..Len(b.chunks) :
                    /\ new[Len(old) + j].id = b.chunks[j].id
                    /\ new[Len(old) + j].content = b.chunks[j].content
                    /\ new[Len(old) + j].embedding = b.embeddings[j]
                    /\ new[Len(old) + j].metadata.source = b.chunks[j].metadata.source]_vars

\* C2 witness: an addDocuments call has returned and its collection holds the same
\* passage twice.
C2_Witness ==
  /\ ret.op = "addDocuments"
  /\ ret.name \in DOMAIN collections
  /\ Len(collections[ret.name]) >= 2
  /\ collections[ret.name][1].id = collections[ret.name][2].id

\* C3: an addDocuments call whose write of the backing file failed reports failure.
C3_WriteFailureSurfaces ==
  (ret.op = "addDocuments" /\ ret.io = "failed") => ~ret.ok

\* C5: a search of a collection the store does not hold, or that holds no record,
\* raises no error and returns the empty sequence.
C5_SearchOfMissingIsEmpty ==
  (/\ ret.op = "search"
   /\ \/ ret.name \notin DOMAIN collections
      \/ Len(collections[ret.name]) = 0) =>
     (ret.ok /\ ret.val = <<>>)

\* C5 witness: a search of a collection that is not in the store, while another one is
\* and the directory holds no file of the searched name.
C5_Witness ==
  /\ ret.op = "search"
  /\ ret.name \notin DOMAIN collections
  /\ disk[ret.name] = NoFile
  /\ \E c \in DOMAIN collections : Len(collections[c]) > 0

\* C6: a deleteCollection call that returns leaves the collection out of memory (not
\* listed, no stats) and without a backing file; on a collection that is in neither
\* memory nor the directory the call raises no error and changes nothing.
C6_DeleteIsIdempotent ==
  [][\A c \in Names :
       (ret'.op = "deleteCollection" /\ ret'.name = c) =>
          LET cols0 == ensureInitialized(initialized, disk, collections)
          IN  /\ ret'.ok =>
                   /\ c \notin listCollections(collections')
                   /\ getCollectionStats(collections', c) = Null
                   /\ disk'[c] = NoFile
              /\ (c \notin DOMAIN cols0 /\ disk[c] = NoFile) =>
                   (ret'.ok /\ collections' = cols0 /\ disk' = disk)]_vars

\* C6 witness: a second deleteCollection of a collection has returned; the first one
\* removed its records and its file.
C6_Witness ==
  /\ ret.op = "deleteCollection"
  /\ ret.ok
  /\ ret.io = "none"
  /\ initialized
  /\ collections = EmptyMap
  /\ ~faulted
  /\ disk[ret.name] = NoFile

(***************************************************************************)
(* search as a function of the collection, the query and the limit: the    *)
(* collection is drawn in the initial state, every step is one search.     *)
(***************************************************************************)
\* the zero vector, two vectors of one direction, and vectors at 45, 90, 180 degrees
SearchVecs == {<<0, 0>>, <<1, 0>>, <<2, 0>>, <<0, 1>>, <<1, 1>>, <<-1, 0>>}
SearchLimits == {0, 1, 2, 5}

\* the i-th record added to the collection: its content tells its place
SearchDoc(i, v) ==
  StoredDocument([id |-> ToString(i), content |-> ToString(i),
                  metadata |-> [source |-> "s.txt"]], v)

SearchCollections ==
  UNION {{[i \in 1..n |-> SearchDoc(i, f[i])] : f \in [1..n -> SearchVecs]} :
           n \in 0..MaxSearchDocs}

InitSearch ==
  /\ \E docs \in SearchCollections :
       /\ collections = [c \in {"t"} |-> docs]
       /\ disk = [c \in Names |-> IF c = "t" THEN JsonFile(JsonStringify(docs)) ELSE NoFile]
  /\ initialized = TRUE
  /\ faulted = FALSE
  /\ ret = Ret("new", Null, <<>>, TRUE, Undef, "none")
  /\ InitEmbedding
  /\ searchCache = EmptyMap

NextSearch == \E q \in SearchVecs, l \in SearchLimits : Search("t", q, l)

SpecSearch == InitSearch /\ [][NextSearch]_vars

\* the collection a returned search looked at, its query, its limit, its results
SearchedCollection == collections[ret.name]
SearchedQuery == ret.args[1]
SearchedLimit == ret.args[2]
\* the score of the k-th record of the searched collection
ScoreOf(k) == cosineSimilarity(SearchedQuery, SearchedCollection[k].embedding)
\* the place in the collection of the record behind the i-th result
PlaceOf(i) == CHOOSE k \in 1..Len(SearchedCollection) :
                SearchedCollection[k].content = ret.val[i].content
IsZeroVector(v) == \A i \in 1..Len(v) : v[i] = 0

\* C7: for a collection of n records and a limit >= 0, search returns min(limit, n)
\* results, each a different record with its cosine score, in non-increasing order of
\* score, records of equal score in insertion order, and no record left out scores
\* higher than (or, inserted earlier, as high as) one returned.
C7_TopLimitStableOrder ==
  (ret.op = "search" /\ ret.name \in DOMAIN collections /\ SearchedLimit >= 0) =>
     LET n == Len(SearchedCollection)
         res == ret.val
         places == {PlaceOf(i) : i \in 1..Len(res)}
     IN  /\ ret.ok
         /\ Len(res) = IF SearchedLimit < n THEN SearchedLimit ELSE n
         /\ \A i \in 1..Len(res) :
              /\ \E k \in 1..n : SearchedCollection[k].content = res[i].content
              /\ res[i].score = ScoreOf(PlaceOf(i))
              /\ res[i].metadata = SearchedCollection[PlaceOf(i)].metadata
         /\ Cardinality(places) = Len(res)
         /\ \A i, j \in 1..Len(res) :
              i < j => /\ ScoreLeq(res[j].score, res[i].score)
                       /\ res[i].score = res[j].score => PlaceOf(i) < PlaceOf(j)
         /\ \A k \in (1..n) \ places : \A i \in 1..Len(res) :
              /\ ScoreLeq(ScoreOf(k), res[i].score)
              /\ ScoreOf(k) = res[i].score => PlaceOf(i) < k

\* C7 witness: a search cut by its limit between two records of equal score, with a
\* record of lower score inserted before them.
C7_Witness ==
  /\ ret.op = "search"
  /\ Len(SearchedCollection) = 3
  /\ SearchedLimit = 2
  /\ ScoreLess(ScoreOf(1), ScoreOf(2))
  /\ ScoreOf(2) = ScoreOf(3)
  /\ ScoreLess(Zero, ScoreOf(1))
  /\ Len(ret.val) = 2

CacheOutcomes == {"ok", "failed"}

\* What a lookup returns, T | undefined: defined is FALSE for undefined.
Undefined == [defined |-> FALSE, value |-> <<>>]
Defined(value) == [defined |-> TRUE, value |-> value]

\* a get that finds nothing whatever the key
CacheGetAlwaysMiss(cache, key, io) == Undefined

\* Cache.get(key): the entry or undefined; undefined when NodeCache throws
CacheGet(cache, key, io) ==
  IF io = "ok" /\ key \in DOMAIN cache THEN Defined(cache[key]) ELSE Undefined

\* a set whose NodeCache error is not caught
CacheSetRethrow(cache, key, value, io) ==
  [cache |-> IF io = "ok" THEN MapSet(cache, key, value) ELSE cache,
   returned |-> io = "ok", thrown |-> io # "ok"]

\* Cache.set(key, value): true, or false when NodeCache throws; it never throws
CacheSet(cache, key, value, io) ==
  [cache |-> IF io = "ok" THEN MapSet(cache, key, value) ELSE cache,
   returned |-> io = "ok", thrown |-> FALSE]

\* the cache calls of one operation: what each of them does
CacheIos == [embGet : CacheOutcomes, embSet : CacheOutcomes,
             searchGet : CacheOutcomes, searchSet : CacheOutcomes]
CacheOk == [embGet |-> "ok", embSet |-> "ok", searchGet |-> "ok", searchSet |-> "ok"]

\* `if (!embedding)`: undefined is the one falsy value a lookup gives
IsMiss(cache, key, io) == ~CacheGet(cache, key, io).defined

\* generateQueryEmbedding(query) with the model loaded, as one step: the vector
\* returned, the cache afterwards, and whether an error was thrown
generateQueryEmbedding(cache, query, io) ==
  LET key == EmbeddingKey(query)
      miss == IsMiss(cache, key, io.embGet)
      embedding == IF miss THEN Extractor(query) ELSE CacheGet(cache, key, io.embGet).value
      set == CacheSet(cache, key, embedding, io.embSet)
  IN  [embedding |-> embedding,
       cache |-> IF miss THEN set.cache ELSE cache,
       thrown |-> miss /\ set.thrown]

(***************************************************************************)
(* RAGService.query.  The service owns its vector store and its embedding  *)
(* service and shares the cache.  processingTime (Date.now) is left out of *)
(* the response.  A number t in [-1, 1] given as the fraction a/b is       *)
(* compared with a score through Squared, its image under x |-> sign * x^2.*)
(***************************************************************************)
\* config.rag.maxResults and config.rag.similarityThreshold (0.7)
maxResults == 5
similarityThreshold == [n |-> 7, d |-> 10]

Squared(t) ==
  LET g == Gcd(t.n * t.n, t.d * t.d)
  IN  [n |-> (IF t.n < 0 THEN -1 ELSE 1) * ((t.n * t.n) \div g), d |-> (t.d * t.d) \div g]

\* the questions, limits and thresholds of the requests
Questions == {TextAa, TextC}
QueryCollections == {"t"}
QueryLimits == {0, 1, 2}
QueryThresholds == {[n |-> 0, d |-> 1], [n |-> 9, d |-> 10]}

\* QueryRequest: {question, collection, limit?, threshold?}
Requests ==
  [question : Questions, collection : QueryCollections]
    \cup [question : Questions, collection : QueryCollections, limit : QueryLimits]
    \cup [question : Questions, collection : QueryCollections, threshold : QueryThresholds]
    \cup [question : Questions, collection : QueryCollections, limit : QueryLimits,
          threshold : QueryThresholds]

\* cache.getSearchResult(query, collection) and cache.setSearchResult(query, collection, r)
getSearchResult(cache, query, collection) == Prop(cache, SearchKey(query, collection))
setSearchResult(cache, query, collection, results) ==
  MapSet(cache, SearchKey(query, collection), results)

\* limit || config.rag.maxResults
LimitOrMax(request) ==
  IF "limit" \notin DOMAIN request \/ request.limit = 0 THEN maxResults ELSE request.limit

\* threshold !== undefined ? threshold : config.rag.similarityThreshold
ThresholdOrDefault(request) ==
  IF "threshold" \in DOMAIN request THEN request.threshold ELSE similarityThreshold

\* searchResults.filter(result => result.score >= similarityThreshold)
FilterByThreshold(searchResults, threshold) ==
  SelectSeq(searchResults, LAMBDA result : ScoreLeq(Squared(threshold), result.score))

\* the context: one block "[source, Page page]\ncontent" per result, or the fixed
\* answer when there is none
Context(filteredResults) ==
  [found |-> Len(filteredResults) > 0,
   blocks |-> [i \in 1..Len(filteredResults) |->
                 <<filteredResults[i].metadata.source, filteredResults[i].metadata.page,
                   filteredResults[i].content>>]]

\* query(request).  load is what the model load does when the service is not
\* initialized: TRUE it succeeds, FALSE it throws and so does the query.  io is what
\* the cache calls of the query do.
Query(request, load, io) ==
  LET question == request.question
      collection == request.collection
      key == SearchKey(question, collection)
      cachedResult == CacheGet(searchCache, key, io.searchGet).value
      hit == ~IsMiss(searchCache, key, io.searchGet)
      embedded == generateQueryEmbedding(embCache, question, io)
      queryEmbedding == embedded.embedding
      cols0 == ensureInitialized(initialized, disk, collections)
      searchResults == search(cols0, collection, queryEmbedding, LimitOrMax(request)).val
      filteredResults == FilterByThreshold(searchResults, ThresholdOrDefault(request))
      response == [answer |-> Context(filteredResults), sources |-> filteredResults]
      stored == CacheSet(searchCache, key, response, io.searchSet)
      thrown == embedded.thrown \/ stored.thrown
      called == IF hit THEN {"searchGet"}
                ELSE IF IsMiss(embCache, EmbeddingKey(question), io.embGet)
                       THEN {"searchGet", "embGet", "embSet", "searchSet"}
                       ELSE {"searchGet", "embGet", "searchSet"}
  IN  /\ ~load => ~embInitialized
      /\ \A k \in DOMAIN io : k \notin called => io[k] = "ok"
      /\ IF ~load
           THEN /\ io = CacheOk
                /\ ret' = Ret("query", collection, <<request>>, FALSE, Undef, io)
                /\ UNCHANGED <<storeVars, embInitialized, ragInitialized, extractor, embCache, searchCache>>
           ELSE /\ embInitialized' = TRUE
                /\ ragInitialized' = TRUE
                /\ extractor' = "model"
                /\ IF hit
                     THEN /\ ret' = Ret("query", collection, <<request>>, TRUE,
                                        cachedResult, io)
                          /\ UNCHANGED <<storeVars, embCache, searchCache>>
                     ELSE /\ embCache' = embedded.cache
                          /\ initialized' = TRUE
                          /\ collections' = cols0
                          /\ searchCache' = stored.cache
                          /\ ret' = Ret("query", collection, <<request>>, ~thrown,
                                        IF thrown THEN Undef ELSE response, io)
                          /\ UNCHANGED <<disk, faulted>>
      /\ UNCHANGED call

\* an entry of the cache expires (30 minutes after it was set) or the cache is cleared
ExpireSearch(key) ==
  /\ key \in DOMAIN searchCache
  /\ searchCache' = MapDelete(searchCache, key)
  /\ UNCHANGED <<storeVars, embedVars, ret>>

InitQuery ==
  /\ disk = [c \in Names |-> NoFile]
  /\ collections = EmptyMap
  /\ initialized = FALSE
  /\ faulted = FALSE
  /\ ret = Ret("new", Null, <<>>, TRUE, Undef, "none")
  /\ InitEmbedding
  /\ searchCache = EmptyMap

NextQuery ==
  \/ \E request \in Requests, load \in BOOLEAN : Query(request, load, CacheOk)
  \/ \E c \in QueryCollections, b \in Batches : AddDocuments(c, b.chunks, b.embeddings, "ok")
  \/ \E key \in DOMAIN searchCache : ExpireSearch(key)

SpecQuery == InitQuery /\ [][NextQuery]_vars

\* C9: every source of a query response has a score of at least the request's
\* threshold (the configured one when the request has none), and the sources are at
\* most the request's limit, whatever queries came before.
C9_SourcesRespectRequest ==
  (ret.op = "query" /\ ret.ok) =>
     LET request == ret.args[1]
         sources == ret.val.sources
     IN  /\ \A i \in 1..Len(sources) :
               ScoreLeq(Squared(ThresholdOrDefault(request)), sources[i].score)
         /\ "limit" \in DOMAIN request => Len(sources) <= request.limit

(***************************************************************************)
(* The cache on its own and under failures of NodeCache: its embedding      *)
(* entries are set and read directly, and by generateQueryEmbedding and     *)
(* query, whose cache calls may fail.                                        *)
(***************************************************************************)
\* the vectors set directly
CacheVecs == {<<1, 0>>, <<0, 1>>}

\* cache.setEmbedding(text, embedding)
SetEmbedding(text, embedding, io) ==
  LET set == CacheSet(embCache, EmbeddingKey(text), embedding, io)
  IN  /\ embCache' = set.cache
      /\ ret' = Ret("setEmbedding", Null, <<text, embedding>>, ~set.thrown, set.returned, io)
      /\ UNCHANGED <<storeVars, embInitialized, ragInitialized, extractor, call, searchCache>>

\* cache.getEmbedding(text)
GetEmbedding(text, io) ==
  /\ ret' = Ret("getEmbedding", Null, <<text>>, TRUE,
                CacheGet(embCache, EmbeddingKey(text), io), io)
  /\ UNCHANGED <<storeVars, embedVars, searchCache>>

\* generateQueryEmbedding(query), the model load succeeding when there is one
GenerateQueryEmbedding(query, io) ==
  LET embedded == generateQueryEmbedding(embCache, query, io)
  IN  /\ io.embSet # "ok" => IsMiss(embCache, EmbeddingKey(query), io.embGet)
      /\ embInitialized' = TRUE
      /\ ragInitialized' = ragInitialized
      /\ extractor' = "model"
      /\ embCache' = embedded.cache
      /\ ret' = Ret("generateQueryEmbedding", Null, <<query>>, ~embedded.thrown,
                    IF embedded.thrown THEN Undef ELSE embedded.embedding, io)
      /\ UNCHANGED <<storeVars, call, searchCache>>

\* cache.clear()
Clear ==
  /\ embCache' = EmptyMap
  /\ searchCache' = EmptyMap
  /\ ret' = Ret("clear", Null, <<>>, TRUE, Undef, "none")
  /\ UNCHANGED <<storeVars, embInitialized, ragInitialized, extractor, call>>

\* the requests of the queries made while the cache may fail
FaultRequests == {r \in Requests : r.question = TextC /\ DOMAIN r = {"question", "collection"}}

\* what the cache calls of a generateQueryEmbedding call do, and those of a query,
\* whose lookups fail together and whose writes fail together
EmbIos == {io \in CacheIos : io.searchGet = "ok" /\ io.searchSet = "ok"}
QueryIos == {io \in CacheIos : io.embGet = io.searchGet /\ io.embSet = io.searchSet}

InitCache == InitQuery

NextCache ==
  \/ \E text \in Texts, embedding \in CacheVecs, io \in CacheOutcomes :
       SetEmbedding(text, embedding, io)
  \/ \E text \in Texts, io \in CacheOutcomes : GetEmbedding(text, io)
  \/ \E text \in Texts, io \in EmbIos : GenerateQueryEmbedding(text, io)
  \/ \E request \in FaultRequests, io \in QueryIos : Query(request, TRUE, io)
  \/ AddDocuments("t", <<ChunkA>>, <<VecB>>, "ok")
  \/ \E key \in DOMAIN embCache : ExpireEmbedding(key)
  \/ \E key \in DOMAIN searchCache : ExpireSearch(key)
  \/ Clear

SpecCache == InitCache /\ [][NextCache]_vars

(***************************************************************************)
(* TextChunker.  A string is the sequence of its characters; JavaScript     *)
(* indexes from 0, so chunk[i] there is chunk[i + 1] here.                  *)
(***************************************************************************)
Whitespace == {" "}
SentenceEnd == {".", "!", "?"}
Alphabet == {"a", ".", " "}

\* i > overlapSize - 50 in getOverlapText
WordWindow == 50

RECURSIVE TrimStart(_)
TrimStart(str) ==
  IF Len(str) > 0 /\ Head(str) \in Whitespace THEN TrimStart(Tail(str)) ELSE str

RECURSIVE TrimEnd(_)
TrimEnd(str) ==
  IF Len(str) > 0 /\ str[Len(str)] \in Whitespace
    THEN TrimEnd(SubSeq(str, 1, Len(str) - 1)) ELSE str

\* String.prototype.trim
Trim(str) == TrimEnd(TrimStart(str))

\* String.prototype.slice(start) with one argument
Slice1(str, start) ==
  LET from == IF start < 0 THEN (IF Len(str) + start < 0 THEN 0 ELSE Len(str) + start)
              ELSE (IF start > Len(str) THEN Len(str) ELSE start)
  IN  SubSeq(str, from + 1, Len(str))

RECURSIVE SkipWhitespace(_, _)
\* the first index from i on that holds no whitespace
SkipWhitespace(text, i) ==
  IF i <= Len(text) /\ text[i] \in Whitespace THEN SkipWhitespace(text, i + 1) ELSE i

RECURSIVE SplitFrom(_, _, _, _)
\* text.split(/(?<=[.!?])\s+/): a separator is a run of whitespace that follows a
\* sentence end; cur is the piece being read, acc the pieces read
SplitFrom(text, i, cur, acc) ==
  IF i > Len(text) THEN Append(acc, cur)
  ELSE IF text[i] \in Whitespace /\ i > 1 /\ text[i - 1] \in SentenceEnd
         THEN SplitFrom(text, SkipWhitespace(text, i), <<>>, Append(acc, cur))
         ELSE SplitFrom(text, i + 1, Append(cur, text[i]), acc)

\* splitIntoSentences(text): split, drop the blank pieces, trim and add a space
splitIntoSentences(text) ==
  LET pieces == SplitFrom(text, 1, <<>>, <<>>)
      kept == SelectSeq(pieces, LAMBDA sentence : Len(Trim(sentence)) > 0)
  IN  [k \in 1..Len(kept) |-> Append(Trim(kept[k]), " ")]

RECURSIVE FindBreak(_, _, _)
\* the loop of getOverlapText: from i down, the first i with chunk[i] a space gives
\* i + 1; overlapSize when there is none
FindBreak(chunk, overlapSize, i) ==
  IF ~(i > overlapSize - WordWindow /\ i > 0) THEN overlapSize
  ELSE IF chunk[i + 1] = " " THEN i + 1
  ELSE FindBreak(chunk, overlapSize, i - 1)

getOverlapText(chunk, overlapSize) ==
  IF Len(chunk) <= overlapSize THEN chunk
  ELSE Slice1(chunk, -FindBreak(chunk, overlapSize, overlapSize))

RECURSIVE ChunkLoopAtSize(_, _, _, _, _, _, _)
\* a loop that already emits the buffer when the next sentence would fill it exactly
ChunkLoopAtSize(sentences, k, size, overlapSize, chunks, seeds, currentChunk) ==
  IF k > Len(sentences)
    THEN [chunks |-> IF Len(Trim(currentChunk)) > 0
                       THEN Append(chunks, Trim(currentChunk)) ELSE chunks,
          seeds |-> seeds]
  ELSE IF Len(currentChunk) + Len(sentences[k]) >= size /\ Len(Trim(currentChunk)) > 0
         THEN ChunkLoopAtSize(sentences, k + 1, size, overlapSize,
                              Append(chunks, Trim(currentChunk)),
                              Append(seeds, getOverlapText(currentChunk, overlapSize)),
                              getOverlapText(currentChunk, overlapSize) \o sentences[k])
         ELSE ChunkLoopAtSize(sentences, k + 1, size, overlapSize, chunks, seeds,
                              currentChunk \o sentences[k])

RECURSIVE ChunkLoop(_, _, _, _, _, _, _)
\* the for loop of chunkText over the sentences and the push that follows it.
\* currentSize is currentChunk.length throughout; seeds records the overlap text each
\* chunk after the first was started with.
ChunkLoop(sentences, k, size, overlapSize, chunks, seeds, currentChunk) ==
  IF k > Len(sentences)
    THEN [chunks |-> IF Len(Trim(currentChunk)) > 0
                       THEN Append(chunks, Trim(currentChunk)) ELSE chunks,
          seeds |-> seeds]
  ELSE IF Len(currentChunk) + Len(sentences[k]) > size /\ Len(Trim(currentChunk)) > 0
         THEN ChunkLoop(sentences, k + 1, size, overlapSize,
                        Append(chunks, Trim(currentChunk)),
                        Append(seeds, getOverlapText(currentChunk, overlapSize)),
                        getOverlapText(currentChunk, overlapSize) \o sentences[k])
         ELSE ChunkLoop(sentences, k + 1, size, overlapSize, chunks, seeds,
                        currentChunk \o sentences[k])

RECURSIVE EmittedBuffers(_, _, _, _, _, _)
\* the same loop, keeping currentChunk as it is at each chunks.push inside the loop:
\* the buffers that getOverlapText is given
EmittedBuffers(sentences, k, size, overlapSize, buffers, currentChunk) ==
  IF k > Len(sentences) THEN buffers
  ELSE IF Len(currentChunk) + Len(sentences[k]) > size /\ Len(Trim(currentChunk)) > 0
         THEN EmittedBuffers(sentences, k + 1, size, overlapSize,
                             Append(buffers, currentChunk),
                             getOverlapText(currentChunk, overlapSize) \o sentences[k])
         ELSE EmittedBuffers(sentences, k + 1, size, overlapSize, buffers,
                             currentChunk \o sentences[k])

\* chunkSize || config.rag.chunkSize and overlap || config.rag.chunkOverlap: an
\* argument that is undefined or 0 gives way to the configured value
SizeOf(args) ==
  IF "chunkSize" \notin DOMAIN args \/ args.chunkSize = 0 THEN chunkSize ELSE args.chunkSize
OverlapOf(args) ==
  IF "overlap" \notin DOMAIN args \/ args.overlap = 0 THEN chunkOverlap ELSE args.overlap

\* chunkText(text, chunkSize?, overlap?): what it returns or throws
chunkText(text, args) ==
  LET size == SizeOf(args)
      overlapSize == OverlapOf(args)
  IN  IF size <= 0 THEN [ok |-> FALSE, val |-> "Chunk size must be positive"]
      ELSE IF overlapSize >= size
             THEN [ok |-> FALSE, val |-> "Overlap size must be less than chunk size"]
      ELSE [ok |-> TRUE,
            val |-> ChunkLoop(splitIntoSentences(text), 1, size, overlapSize,
                              <<>>, <<>>, <<>>).chunks]

\* the texts and the size arguments given to the chunker
ChunkTexts == UNION {[1..n -> Alphabet] : n \in 0..MaxTextLen}
ChunkArgs ==
  {<<>>} \cup [chunkSize : -1..MaxSize] \cup [chunkSize : -1..MaxSize, overlap : -1..MaxSize]

\* the call chunkText(text, args) made in the initial state returns or throws
ChunkText ==
  /\ ret.op = "call chunkText"
  /\ ret' = Ret("chunkText", Null, ret.args, chunkText(ret.args[1], ret.args[2]).ok,
                chunkText(ret.args[1], ret.args[2]).val, "none")
  /\ UNCHANGED <<storeVars, embedVars, searchCache>>

InitChunk ==
  /\ disk = [c \in Names |-> NoFile]
  /\ collections = EmptyMap
  /\ initialized = FALSE
  /\ faulted = FALSE
  /\ \E text \in ChunkTexts, args \in ChunkArgs :
       ret = Ret("call chunkText", Null, <<text, args>>, TRUE, Undef, "none")
  /\ InitEmbedding
  /\ searchCache = EmptyMap

NextChunk == ChunkText

SpecChunk == InitChunk /\ [][NextChunk]_vars

(***************************************************************************)
(* Claims about the embedding service.                                     *)
(***************************************************************************)
\* C4: at most one load of the embedding model is in flight: a caller that arrives
\* while the model is loading waits for that load and starts none of its own.
C4_OneLoadInFlight ==
  Cardinality({p \in Callers : call[p].pc = "loading"}) <= 1

\* C10 as stated: a generateEmbeddings call that returns gives as many vectors as it
\* was given texts, the i-th being the model's vector of the i-th text.
C10_VectorOfEachText ==
  call["index"].pc = "done" =>
     /\ Len(call["index"].result) = Len(call["index"].texts)
     /\ \A i \in 1..Len(call["index"].texts) :
          call["index"].result[i] = Extractor(call["index"].texts[i])

\* C10 as amended: a generateEmbeddings call that returns gives as many vectors as it
\* was given texts, the i-th being the model's vector of the i-th text or, on a cache
\* hit, the vector cached under the i-th text's key, which is the model's vector of a
\* text of the same hash.
C10_VectorOfEachKey ==
  call["index"].pc = "done" =>
     /\ Len(call["index"].result) = Len(call["index"].texts)
     /\ \A i \in 1..Len(call["index"].texts) :
          \E x \in Texts :
             /\ EmbeddingKey(x) = EmbeddingKey(call["index"].texts[i])
             /\ call["index"].result[i] = Extractor(x)

\* C10 witness: a call with three texts, so two batches, has returned, its second
\* batch holding a text other than the first text.
C10_Witness ==
  /\ call["index"].pc = "done"
  /\ Len(call["index"].texts) = 3
  /\ call["index"].texts[1] # call["index"].texts[3]
  /\ call["index"].result[1] # call["index"].result[3]

\* p issues a batch in this step: its first one, or the next one after a batch resolved
IssuesBatch(p) ==
  /\ call'[p].pc = "batch"
  /\ call[p].pc = "ready" \/ (call[p].pc = "batch" /\ call'[p].batchStart # call[p].batchStart)

\* C11: the cache is consulted before the model.  When a batch is issued, a text whose
\* key is in the cache gets the cached vector and no model invocation, and a text whose
\* key is not gets a model invocation; when that invocation succeeds, the vector is
\* written under the text's key in the same step, before the batch resolves; and the
\* vectors the call carries on are those of its callbacks, hits included.
C11_CacheBeforeModel ==
  [][\A p \in Callers :
       /\ IssuesBatch(p) =>
            \A i \in 1..Len(call'[p].slots) :
               LET text == call'[p].texts[call'[p].batchStart + i]
               IN  IF EmbeddingKey(text) \in DOMAIN embCache
                     THEN call'[p].slots[i] = [st |-> "hit", v |-> embCache[EmbeddingKey(text)]]
                     ELSE call'[p].slots[i].st = "pending"
       /\ \A i \in 1..Len(call[p].slots) :
            (/\ Len(call'[p].slots) = Len(call[p].slots)
             /\ call[p].slots[i].st = "pending"
             /\ call'[p].slots[i].st = "done") =>
               LET text == call[p].texts[call[p].batchStart + i]
               IN  /\ call'[p].slots[i].v = Extractor(text)
                   /\ EmbeddingKey(text) \in DOMAIN embCache'
                   /\ embCache'[EmbeddingKey(text)] = Extractor(text)
                   /\ call'[p].pc # "done"
       /\ (call[p].pc = "batch" /\ (IssuesBatch(p) \/ call'[p].pc = "done")) =>
            /\ Len(call'[p].embeddings) = call[p].batchStart + Len(call[p].slots)
            /\ \A i \in 1..Len(call[p].slots) :
                 /\ call[p].slots[i].st \in {"hit", "done"}
                 /\ call'[p].embeddings[call[p].batchStart + i] = call[p].slots[i].v
    ]_vars

\* C11 witness: a call has returned three vectors, the first a cache hit for which the
\* model was not invoked and the third computed by the model and written to the cache.
C11_Witness ==
  /\ call["index"].pc = "done"
  /\ Len(call["index"].texts) = 3
  /\ call["index"].texts[1] = TextBB
  /\ call["index"].texts[3] = TextC
  /\ call["index"].result[1] = Extractor(TextAa)
  /\ call["index"].result[3] = Extractor(TextC)
  /\ EmbeddingKey(TextC) \in DOMAIN embCache

\* C12: a failure aborts the whole call.  When the model fails on one text of a batch
\* the call throws at once, its error naming the cause, and returns no vector; so does
\* a call whose model load fails; a call that has thrown never returns afterwards; and
\* a call that returns gives one vector for each text, none of its callbacks having
\* failed.
C12_FailureAbortsCall ==
  [][\A p \in Callers :
       /\ (/\ call[p].pc = "batch"
           /\ \E i \in 1..Len(call[p].slots) :
                /\ Len(call'[p].slots) = Len(call[p].slots)
                /\ call[p].slots[i].st = "pending"
                /\ call'[p].slots[i].st \notin {"pending", "done"}) =>
            /\ call'[p].pc = "failed"
            /\ call'[p].result = <<>>
            /\ call'[p].error = Thrown(FailedMessage(call[p].kind), "extractor")
       /\ (call[p].pc = "loading" /\ call'[p].pc \notin {"loading", "ready"}) =>
            /\ call'[p].pc = "failed"
            /\ call'[p].result = <<>>
            /\ call'[p].error = Thrown("Embedding model initialization failed", "pipeline")
       /\ call[p].pc = "failed" => call'[p].pc \in {"failed", "loading", "ready"}
       /\ (call[p].pc = "failed" /\ call'[p].pc = "failed") =>
            (call'[p].result = <<>> /\ call'[p].error = call[p].error)
       /\ (call[p].pc # "done" /\ call'[p].pc = "done") =>
            /\ call'[p].error = NoError
            /\ \A i \in 1..Len(call[p].slots) :
                 call[p].slots[i].st \in {"hit", "done"} /\ Len(call[p].slots[i].v) > 0
            /\ call'[p].kind = "many" => Len(call'[p].result) = Len(call'[p].texts)
    ]_vars

\* C12 witness: a call with three texts got the vectors of its first batch and then
\* threw because the model failed on the third text: it returned nothing.
C12_Witness ==
  /\ call["index"].pc = "failed"
  /\ Len(call["index"].texts) = 3
  /\ call["index"].batchStart = BATCH_SIZE
  /\ Len(call["index"].embeddings) = BATCH_SIZE
  /\ call["index"].slots[1].st = "failed"
  /\ call["index"].result = <<>>
  /\ call["index"].error.cause = "extractor"

\* the operations of p's batch that are in flight
InFlight(p) == {i \in 1..Len(call[p].slots) : call[p].slots[i].st = "pending"}

\* the texts of the batch that starts at batchStart
BatchLength(texts, batchStart) ==
  IF Len(texts) - batchStart < BATCH_SIZE THEN Len(texts) - batchStart ELSE BATCH_SIZE

\* C21: a call has at most BATCH_SIZE operations in flight, its batch is the next
\* BATCH_SIZE texts of the input (fewer at the end), and it moves to the next batch only
\* when every operation of the current one has completed.
C21_BatchesInSequence ==
  /\ [](\A p \in Callers :
          /\ Cardinality(InFlight(p)) <= BATCH_SIZE
          /\ call[p].pc = "batch" =>
               Len(call[p].slots) = BatchLength(call[p].texts, call[p].batchStart))
  /\ [][\A p \in Callers :
          (call'[p].pc = "batch" /\ call'[p].batchStart # call[p].batchStart) =>
             /\ call[p].pc = "batch"
             /\ InFlight(p) = {}
             /\ \A i \in 1..Len(call[p].slots) : call[p].slots[i].st \in {"hit", "done"}
             /\ Len(call[p].slots) = BATCH_SIZE
             /\ call'[p].batchStart = call[p].batchStart + BATCH_SIZE]_vars

\* C21 witness: the second batch of a call of more than BATCH_SIZE texts is in flight,
\* the first batch is in the result.
C21_Witness ==
  /\ call["index"].pc = "batch"
  /\ call["index"].batchStart = BATCH_SIZE
  /\ Len(call["index"].texts) > BATCH_SIZE
  /\ Len(call["index"].embeddings) = BATCH_SIZE
  /\ InFlight("index") # {}

\* the cache key that the i-th operation of p's batch reads and writes
KeyOfOperation(p, i) == EmbeddingKey(call[p].texts[call[p].batchStart + i])

\* C22: no two operations of a batch that are in flight at the same time work on
\* the same cache key, whatever the input.
C22_OwnKeyPerOperation ==
  \A p \in Callers :
     call[p].pc = "batch" =>
        \A i, j \in InFlight(p) : i # j => KeyOfOperation(p, i) # KeyOfOperation(p, j)

(***************************************************************************)
(* Claims about the cache.                                                 *)
(***************************************************************************)
\* the cache's embedding entry of a text is the same in c1 and c2
SameEntry(c1, c2, text) ==
  /\ EmbeddingKey(text) \in DOMAIN c1 <=> EmbeddingKey(text) \in DOMAIN c2
  /\ EmbeddingKey(text) \in DOMAIN c1 => c1[EmbeddingKey(text)] = c2[EmbeddingKey(text)]

\* the text whose embedding the operation of this step may have written
WrittenText(r) ==
  IF r.op = "query" THEN r.args[1].question ELSE r.args[1]

\* this step is an operation that writes embeddings
IsWrite == ret'.op \in {"setEmbedding", "generateQueryEmbedding", "query"}

\* this step is a cache.setEmbedding(x, v), or a cache.getEmbedding(x), in which the
\* cache does not fail; no entry expires in it
SetStep(x, v) ==
  /\ ret'.op = "setEmbedding" /\ ret'.io = "ok" /\ ret'.args = <<x, v>>
  /\ DOMAIN embCache \subseteq DOMAIN embCache' /\ searchCache' = searchCache
GetStep(x) ==
  /\ ret'.op = "getEmbedding" /\ ret'.io = "ok" /\ ret'.args = <<x>>
  /\ embCache' = embCache /\ searchCache' = searchCache

\* C13 as stated: after set(x, v) a get(x) returns v until the entry expires or the
\* cache is cleared, whatever other texts are set meanwhile.  Step by step: a set of
\* x leaves v as the entry of x and returns true, a get of x returns the entry of x,
\* and the entry of x gets another vector only by a write of x (it goes away only by
\* expiry or clear).
C13_GetAfterSet ==
  [][/\ \A x \in Texts, v \in CacheVecs :
          SetStep(x, v) =>
             ret'.val = TRUE /\ CacheGet(embCache', EmbeddingKey(x), "ok") = Defined(v)
     /\ \A x \in Texts :
          GetStep(x) =>
             ret'.val = (IF EmbeddingKey(x) \in DOMAIN embCache
                           THEN Defined(embCache[EmbeddingKey(x)]) ELSE Undefined)
     /\ \A x \in Texts :
          (EmbeddingKey(x) \in DOMAIN embCache' /\ ~SameEntry(embCache', embCache, x)) =>
             IsWrite /\ WrittenText(ret') = x
    ]_vars

\* C13 as amended: the same, except that the entry of x also gets another vector by a
\* write of a text with the hash of x (and that a get or set in which the cache itself
\* fails returns undefined or false).
C13_GetAfterSetOfKey ==
  [][/\ \A x \in Texts, v \in CacheVecs :
          SetStep(x, v) =>
             ret'.val = TRUE /\ CacheGet(embCache', EmbeddingKey(x), "ok") = Defined(v)
     /\ \A x \in Texts :
          GetStep(x) =>
             ret'.val = (IF EmbeddingKey(x) \in DOMAIN embCache
                           THEN Defined(embCache[EmbeddingKey(x)]) ELSE Undefined)
     /\ \A x \in Texts :
          (EmbeddingKey(x) \in DOMAIN embCache' /\ ~SameEntry(embCache', embCache, x)) =>
             IsWrite /\ hashString(WrittenText(ret')) = hashString(x)
    ]_vars

\* C13 witness: "Aa" was set to a vector, "C" was set afterwards, and a get of "Aa"
\* has returned the vector.
C13_Witness ==
  /\ ret.op = "getEmbedding"
  /\ ret.args = <<TextAa>>
  /\ ret.io = "ok"
  /\ EmbeddingKey(TextC) \in DOMAIN embCache
  /\ EmbeddingKey(TextAa) \in DOMAIN embCache
  /\ ret.val = Defined(<<0, 1>>)
  /\ embCache[EmbeddingKey(TextC)] = <<1, 0>>

\* C14: a failure inside the cache does not reach the caller.  A get in which the
\* cache fails returns undefined, a set in which it fails returns false, neither
\* throws; generateQueryEmbedding and query return whatever their cache calls do, and
\* when a lookup fails they return what they compute anew: the model's vector of the
\* text, the search results of the collection as it is.
C14_CacheFailureIsAMiss ==
  /\ (ret.op = "getEmbedding" /\ ret.io = "failed") => (ret.ok /\ ret.val = Undefined)
  /\ (ret.op = "setEmbedding" /\ ret.io = "failed") => (ret.ok /\ ret.val = FALSE)
  /\ ret.op = "generateQueryEmbedding" =>
       /\ ret.ok
       /\ ret.io # CacheOk => ret.val = Extractor(ret.args[1])
  /\ (ret.op = "query" /\ ret.args[1] \in FaultRequests) =>
       /\ ret.ok
       /\ ret.io.searchGet = "failed" =>
            ret.val.sources =
              FilterByThreshold(search(collections, ret.args[1].collection,
                                       Extractor(ret.args[1].question),
                                       LimitOrMax(ret.args[1])).val,
                                ThresholdOrDefault(ret.args[1]))

\* C14 witness: a query whose cache calls all failed, made while the cache held a
\* response for its question, has returned the source found in the collection.
C14_Witness ==
  /\ ret.op = "query"
  /\ ret.io.searchGet = "failed" /\ ret.io.searchSet = "failed"
  /\ ret.ok
  /\ SearchKey(ret.args[1].question, ret.args[1].collection) \in DOMAIN searchCache
  /\ Len(ret.val.sources) = 1
  /\ Len(searchCache[SearchKey(ret.args[1].question, ret.args[1].collection)].sources) = 0

(***************************************************************************)
(* Claims about the chunker.                                               *)
(***************************************************************************)
\* the call that returned: its text, its size arguments, and the run of its loop
ChunkedText == ret.args[1]
ChunkedArgs == ret.args[2]
ChunkedRun ==
  ChunkLoop(splitIntoSentences(ChunkedText), 1, SizeOf(ChunkedArgs), OverlapOf(ChunkedArgs),
            <<>>, <<>>, <<>>)

\* both sizes are passed, and they are a valid pair
BothPassed == DOMAIN ChunkedArgs = {"chunkSize", "overlap"}
ValidPair ==
  /\ ChunkedArgs.chunkSize > 0
  /\ 0 <= ChunkedArgs.overlap
  /\ ChunkedArgs.overlap < ChunkedArgs.chunkSize

IsPrefix(a, b) == Len(a) <= Len(b) /\ SubSeq(b, 1, Len(a)) = a
IsSuffix(a, b) == Len(a) <= Len(b) /\ SubSeq(b, Len(b) - Len(a) + 1, Len(b)) = a

RECURSIVE Concat(_, _, _)
\* sentences[i] followed by ... followed by sentences[j]
Concat(sentences, i, j) ==
  IF i > j THEN <<>> ELSE sentences[i] \o Concat(sentences, i + 1, j)

\* C15: with both sizes passed, chunkText throws when targetSize <= 0 or
\* overlapSize >= targetSize, and for every other pair with overlapSize >= 0 it
\* returns the passages made with exactly the sizes passed.
C15_RejectsInvalidAcceptsValid ==
  (ret.op = "chunkText" /\ BothPassed) =>
     /\ (ChunkedArgs.chunkSize <= 0 \/ ChunkedArgs.overlap >= ChunkedArgs.chunkSize) => ~ret.ok
     /\ ValidPair =>
          /\ ret.ok
          /\ ret.val = ChunkLoop(splitIntoSentences(ChunkedText), 1, ChunkedArgs.chunkSize,
                                 ChunkedArgs.overlap, <<>>, <<>>, <<>>).chunks

\* the passages are the sentences in order, cut into consecutive non-empty groups, each
\* group after the first preceded by the overlap text it was started with
IsGrouping(sentences, chunks, seeds) ==
  /\ Len(chunks) = 0 <=> Len(sentences) = 0
  /\ Len(chunks) > 0 =>
       /\ Len(seeds) = Len(chunks) - 1
       /\ \E last \in [1..Len(chunks) -> 1..Len(sentences)] :
            /\ last[Len(chunks)] = Len(sentences)
            /\ \A i \in 1..(Len(chunks) - 1) : last[i] < last[i + 1]
            /\ \A i \in 1..Len(chunks) :
                 chunks[i] = Trim((IF i = 1 THEN <<>> ELSE seeds[i - 1])
                                    \o Concat(sentences, IF i = 1 THEN 1 ELSE last[i - 1] + 1,
                                              last[i]))

\* C16: for every text and valid pair of sizes the call returns passages that hold
\* every sentence whole, in order, none left out: without their overlap text and put
\* end to end they are the sentences of the text; a text without sentences gives no
\* passage.
C16_UnitsWholeInOrder ==
  (ret.op = "chunkText" /\ BothPassed /\ ValidPair) =>
     /\ ret.ok
     /\ IsGrouping(splitIntoSentences(ChunkedText), ret.val, ChunkedRun.seeds)

\* C17: for every text and valid pair of sizes, each passage after the first begins
\* with the overlap carried over from the passage before it, which is a tail of that
\* passage of at most overlapSize characters.
C17_OverlapIsBoundedTail ==
  (ret.op = "chunkText" /\ BothPassed /\ ValidPair /\ ret.ok) =>
     \A i \in 1..(Len(ret.val) - 1) :
        LET tail == Trim(ChunkedRun.seeds[i])
        IN  /\ IsSuffix(tail, ret.val[i])
            /\ IsPrefix(tail, ret.val[i + 1])
            /\ Len(tail) <= ChunkedArgs.overlap

\* the buffers the returned call emitted inside its loop, and the sizes it worked with
ChunkedBuffers ==
  EmittedBuffers(splitIntoSentences(ChunkedText), 1, SizeOf(ChunkedArgs), OverlapOf(ChunkedArgs),
                 <<>>, <<>>)
ChunkedSize == SizeOf(ChunkedArgs)
ChunkedOverlap == OverlapOf(ChunkedArgs)

\* the indices (from 0, as chunk[i] in the source) that the loop of getOverlapText looks at
ScannedIndices(overlapSize) ==
  {i \in 1..overlapSize : i > overlapSize - WordWindow}

\* C23: each buffer emitted inside the loop is followed by a seed that is a suffix
\* of it of at most overlapSize characters: the whole buffer when that is not longer
\* than overlapSize, exactly overlapSize characters when the scan finds no space.
\* overlapSize is the overlap the call works with.
C23_SeedIsBoundedSuffix ==
  (ret.op = "chunkText" /\ ret.ok /\ ChunkedOverlap >= 0) =>
     /\ Len(ChunkedRun.seeds) = Len(ChunkedBuffers)
     /\ \A i \in 1..Len(ChunkedBuffers) :
          LET buffer == ChunkedBuffers[i]
              seed == ChunkedRun.seeds[i]
          IN  /\ IsSuffix(seed, buffer)
              /\ Len(seed) <= ChunkedOverlap
              /\ Len(buffer) <= ChunkedOverlap => seed = buffer
              /\ (/\ Len(buffer) > ChunkedOverlap
                  /\ \A j \in ScannedIndices(ChunkedOverlap) : buffer[j + 1] # " ") =>
                   Len(seed) = ChunkedOverlap

\* the characters of the buffer before the overlap cut point, WordWindow of them at most
BeforeCut(buffer, overlapSize) ==
  {j \in 1..(Len(buffer) - overlapSize) : j > Len(buffer) - overlapSize - WordWindow}

\* the seed does not begin inside a word: it is the buffer from its start, or the
\* character before it or its own first character is a space
AtWordBoundary(seed, buffer) ==
  \/ Len(seed) = Len(buffer)
  \/ buffer[Len(buffer) - Len(seed)] = " "
  \/ seed[1] = " "

\* C24: when an emitted buffer is longer than overlapSize and has a space among the
\* WordWindow characters before the overlap cut point, the seed taken from it begins
\* at a word boundary and not inside a word.
C24_SeedStartsAtWordBoundary ==
  (ret.op = "chunkText" /\ ret.ok /\ ChunkedOverlap >= 0) =>
     \A i \in 1..Len(ChunkedBuffers) :
        LET buffer == ChunkedBuffers[i]
            seed == ChunkedRun.seeds[i]
        IN  (/\ Len(buffer) > ChunkedOverlap
             /\ \E j \in BeforeCut(buffer, ChunkedOverlap) : buffer[j] = " ") =>
               AtWordBoundary(seed, buffer)

\* the buffer of the i-th passage when the groups end at last[1] < last[2] < ...: its
\* seed followed by the first n sentences of its group
GroupFirst(last, i) == IF i = 1 THEN 1 ELSE last[i - 1] + 1
GroupBuffer(sentences, seeds, last, i, n) ==
  (IF i = 1 THEN <<>> ELSE seeds[i - 1])
    \o Concat(sentences, GroupFirst(last, i), GroupFirst(last, i) + n - 1)

\* the passages are groups of consecutive sentences that were cut exactly where the
\* buffer was non-empty and the next sentence would have taken it beyond size
CutWhereExceeding(sentences, chunks, seeds, size) ==
  /\ Len(chunks) = 0 <=> Len(sentences) = 0
  /\ Len(chunks) > 0 =>
       /\ Len(seeds) = Len(chunks) - 1
       /\ \E last \in [1..Len(chunks) -> 1..Len(sentences)] :
            /\ last[Len(chunks)] = Len(sentences)
            /\ \A i \in 1..(Len(chunks) - 1) : last[i] < last[i + 1]
            /\ \A i \in 1..Len(chunks) :
                 LET n == last[i] - GroupFirst(last, i) + 1
                 IN  /\ n >= 1
                     /\ chunks[i] = Trim(GroupBuffer(sentences, seeds, last, i, n))
                     \* no cut inside the group: each further sentence still fitted
                     /\ \A m \in 1..(n - 1) :
                          Len(GroupBuffer(sentences, seeds, last, i, m))
                            + Len(sentences[GroupFirst(last, i) + m]) <= size
                     \* the cut after the group: the next sentence did not fit
                     /\ i < Len(chunks) =>
                          Len(GroupBuffer(sentences, seeds, last, i, n))
                            + Len(sentences[last[i] + 1]) > size
                     \* longer than size only as a seed and one sentence
                     /\ Len(chunks[i]) > size => n = 1

\* C25: a call that returns has cut its passages exactly where the buffer was
\* non-empty and buffer length + sentence length > size; every passage is non-empty, and
\* one that is longer than size is its seed followed by one sentence.
C25_EmitsExactlyWhenExceeding ==
  (ret.op = "chunkText" /\ ret.ok) =>
     /\ CutWhereExceeding(splitIntoSentences(ChunkedText), ret.val, ChunkedRun.seeds,
                          ChunkedSize)
     /\ \A i \in 1..Len(ret.val) : Len(ret.val[i]) > 0

\* C25 witness: a call with both sizes passed has returned three passages, one of
\* them, not the first, longer than the size.
C25_Witness ==
  /\ ret.op = "chunkText" /\ ret.ok
  /\ BothPassed /\ ValidPair
  /\ Len(ret.val) = 3
  /\ \E i \in 2..3 : Len(ret.val[i]) > ChunkedArgs.chunkSize
  /\ \E i \in 1..3 : Len(ret.val[i]) <= ChunkedArgs.chunkSize

(***************************************************************************)
(* RAGService.getCollectionInfo over the store.                            *)
(***************************************************************************)
\* what reading the collection's documents directory gives: the directory is not
\* there, it holds so many .pdf files, or reading it throws
DocumentDirs == {"none", "0", "1", "throws"}
documentCount(dir) == IF dir = "1" THEN 1 ELSE 0

\* getCollectionInfo(name).  load is what the model load does when the service is not
\* initialized: TRUE it succeeds, FALSE it throws and so does the call.  createdAt and
\* lastModified (new Date()) are left out.
GetCollectionInfo(name, load, dir) ==
  LET cols0 == ensureInitialized(initialized, disk, collections)
      stats == getCollectionStats(cols0, name)
  IN  /\ ~load => ~embInitialized
      /\ IF ~load
           THEN /\ dir = "none"
                /\ ret' = Ret("getCollectionInfo", name, <<>>, FALSE, Undef, "none")
                /\ UNCHANGED <<storeVars, embInitialized, ragInitialized, extractor>>
           ELSE /\ embInitialized' = TRUE
                /\ ragInitialized' = TRUE
                /\ extractor' = "model"
                /\ initialized' = TRUE
                /\ collections' = cols0
                /\ name \notin DOMAIN cols0 => dir = "none"
                /\ ret' = Ret("getCollectionInfo", name, <<>>, TRUE,
                              IF name \notin DOMAIN cols0 THEN Null
                              ELSE [name |-> name, documentCount |-> documentCount(dir),
                                    chunkCount |-> stats.count],
                              "none")
                /\ UNCHANGED <<disk, faulted>>
      /\ UNCHANGED <<embCache, call, searchCache>>

\* the single-passage batches
SmallBatches == {b \in Batches : Len(b.chunks) <= 1}

NextInfo ==
  \/ \E c \in Names, b \in SmallBatches, io \in WriteOutcomes :
       AddDocuments(c, b.chunks, b.embeddings, io)
  \/ \E c \in Names : DeleteCollection(c, "ok")
  \/ ListCollections
  \/ \E c \in Names : GetCollectionStats(c)
  \/ \E c \in Names, load \in BOOLEAN, dir \in DocumentDirs : GetCollectionInfo(c, load, dir)
  \/ Restart

SpecInfo == InitStore /\ [][NextInfo]_vars

(***************************************************************************)
(* The store with the file paths it builds.  A collection name is the      *)
(* sequence of the segments its '/' separate; a file path is the directory *)
(* (a sequence of segments) and the name of the .json file in it.          *)
(***************************************************************************)
\* config.rag.vectorDbPath, './data/vectors'
vectorDbPath == <<".", "data", "vectors">>

\* the names "t", "../t" and "u/../t", as a request body's collection gives them
PathNames == {<<"t">>, <<"..", "t">>, <<"u", "..", "t">>}

RECURSIVE NormalizeFrom(_, _, _)
\* path.normalize of a relative path: '.' and empty segments are dropped, '..' removes
\* the segment before it, or stays when there is none to remove
NormalizeFrom(segments, i, acc) ==
  IF i > Len(segments) THEN acc
  ELSE IF segments[i] \in {".", ""} THEN NormalizeFrom(segments, i + 1, acc)
  ELSE IF segments[i] = ".."
    THEN IF Len(acc) > 0 /\ acc[Len(acc)] # ".."
           THEN NormalizeFrom(segments, i + 1, SubSeq(acc, 1, Len(acc) - 1))
           ELSE NormalizeFrom(segments, i + 1, Append(acc, ".."))
  ELSE NormalizeFrom(segments, i + 1, Append(acc, segments[i]))

\* path.join(dir, `${name}.json`): the segments of both, normalized.  The last segment
\* of name is a word, so '.json' extends it and the path ends in <word>.json.
pathJoin(dir, name) ==
  LET p == NormalizeFrom(dir \o name, 1, <<>>)
  IN  [dir |-> SubSeq(p, 1, Len(p) - 1), file |-> p[Len(p)]]

\* the file of a collection
filePath(name) == pathJoin(vectorDbPath, name)

\* the files the names can reach
FilePaths == {filePath(n) : n \in PathNames}

\* fs.readdirSync(vectorsPath).filter(f => f.endsWith('.json')): the .json files that
\* are in the storage directory itself
readdirSync(d) == {p \in DOMAIN d : p.dir = filePath(<<"t">>).dir /\ d[p] # NoFile}

\* path.basename(file, '.json')
basename(p) == <<p.file>>

\* loadCollectionsFromDisk over the paths: each parseable file of the directory is set
\* under its base name
loadCollectionsFromPaths(d, cols) ==
  LET loaded == {p \in readdirSync(d) : IsJson(d[p])}
  IN  [k \in (DOMAIN cols) \cup {basename(p) : p \in loaded} |->
         IF \E p \in loaded : basename(p) = k
           THEN JsonParse(d[CHOOSE p \in loaded : basename(p) = k].text)
           ELSE cols[k]]

ensureInitializedPaths(isInit, d, cols) ==
  IF isInit THEN cols ELSE loadCollectionsFromPaths(d, cols)

InitPath ==
  /\ disk = [p \in FilePaths |-> NoFile]
  /\ collections = EmptyMap
  /\ initialized = FALSE
  /\ faulted = FALSE
  /\ ret = Ret("new", Null, <<>>, TRUE, Undef, "none")
  /\ InitEmbedding
  /\ searchCache = EmptyMap

\* addDocuments with the path saveCollectionToDisk builds; ret.args holds that path
AddDocumentsAt(collectionName, chunks, embeddings, io) ==
  LET cols0 == ensureInitializedPaths(initialized, disk, collections)
      collection == IF collectionName \in DOMAIN cols0 THEN cols0[collectionName] ELSE <<>>
      cols1 == MapSet(cols0, collectionName, PushAll(collection, chunks, embeddings, 1))
      path == filePath(collectionName)
  IN  /\ TotalRecords(cols0, DOMAIN cols0) + Len(chunks) <= MaxRecords
      /\ io # "ok" => ~faulted
      /\ faulted' = (faulted \/ io # "ok")
      /\ initialized' = TRUE
      /\ collections' = cols1
      /\ disk' = IF io = "ok"
                   THEN [disk EXCEPT ![path] = JsonFile(JsonStringify(cols1[collectionName]))]
                   ELSE disk
      /\ ret' = Ret("addDocuments", collectionName, <<path>>, TRUE, Undef, io)
      /\ UNCHANGED <<embedVars, searchCache>>

\* deleteCollection with the path it builds; ret.args holds that path
DeleteCollectionAt(name, io) ==
  LET cols0 == ensureInitializedPaths(initialized, disk, collections)
      path == filePath(name)
      exists == disk[path] # NoFile
  IN  /\ io # "ok" => (exists /\ ~faulted)
      /\ faulted' = (faulted \/ io # "ok")
      /\ initialized' = TRUE
      /\ collections' = MapDelete(cols0, name)
      /\ disk' = IF exists /\ io = "ok" THEN [disk EXCEPT ![path] = NoFile] ELSE disk
      /\ ret' = Ret("deleteCollection", name, <<path>>, io = "ok", Undef,
                    IF exists THEN io ELSE "none")
      /\ UNCHANGED <<embedVars, searchCache>>

NextPath ==
  \/ \E c \in PathNames, b \in SmallBatches, io \in WriteOutcomes :
       AddDocumentsAt(c, b.chunks, b.embeddings, io)
  \/ \E c \in PathNames, io \in WriteOutcomes : DeleteCollectionAt(c, io)
  \/ Restart

SpecPath == InitPath /\ [][NextPath]_vars

(***************************************************************************)
(* Concurrent addDocuments calls.  The calls are tasks on one thread: a    *)
(* step runs one of them from one await to the next.  loadCollectionsFromDisk *)
(* and saveCollectionToDisk have no await inside, so each runs within the  *)
(* step that calls it.  In this specification call holds the store's       *)
(* callers.                                                                *)
(***************************************************************************)
StoreCallers == {"first", "second"}

\* the record a backing file holds before the calls
PriorRecord == StoredDocument(ChunkA, VecB)

\* the batches of a caller: the first adds ChunkA passages, the second ChunkB passages
BatchesOf(p) ==
  {b \in Batches :
     /\ Len(b.chunks) >= 1
     /\ \A i \in 1..Len(b.chunks) :
          <<b.chunks[i], b.embeddings[i]>> = (IF p = "first" THEN <<ChunkA, VecA>>
                                              ELSE <<ChunkB, VecB>>)}

IdleTask == [pc |-> "idle", name |-> Null, chunks |-> <<>>, embeddings |-> <<>>]

InitTasks ==
  /\ disk \in [Names -> {NoFile, Corrupt, JsonFile(JsonStringify(<<PriorRecord>>))}]
  /\ collections = EmptyMap
  /\ initialized = FALSE
  /\ faulted = FALSE
  /\ ret = Ret("new", Null, <<>>, TRUE, Undef, "none")
  /\ embInitialized = FALSE
  /\ ragInitialized = FALSE
  /\ extractor = Null
  /\ embCache = EmptyMap
  /\ searchCache = EmptyMap
  /\ call = [p \in StoreCallers |-> IdleTask]

\* addDocuments(collectionName, chunks, embeddings) is called and runs to the await in
\* initialize: with initialized set, ensureInitialized does nothing; without, the
\* files are loaded into the map at once and initialized is set only after the await
CallAddDocuments(p, collectionName, chunks, embeddings) ==
  /\ call[p].pc = "idle"
  /\ call' = [call EXCEPT ![p] = [pc |-> IF initialized THEN "body" ELSE "loaded",
                                  name |-> collectionName,
                                  chunks |-> chunks, embeddings |-> embeddings]]
  /\ collections' = IF initialized THEN collections
                    ELSE loadCollectionsFromDisk(disk, collections)
  /\ UNCHANGED <<disk, initialized, faulted, ret, embInitialized, ragInitialized, extractor, embCache,
                 searchCache>>

\* initialize resumes after await loadCollectionsFromDisk(): this.initialized = true
InitializeDone(p) ==
  /\ call[p].pc = "loaded"
  /\ initialized' = TRUE
  /\ call' = [call EXCEPT ![p].pc = "body"]
  /\ UNCHANGED <<disk, collections, faulted, ret, embInitialized, ragInitialized, extractor, embCache,
                 searchCache>>

\* addDocuments resumes after await ensureInitialized(): the try block up to the
\* return, with the write of saveCollectionToDisk (io as in AddDocuments)
AddDocumentsBody(p, io) ==
  LET c == call[p]
      collection == IF c.name \in DOMAIN collections THEN collections[c.name] ELSE <<>>
      cols1 == MapSet(collections, c.name, PushAll(collection, c.chunks, c.embeddings, 1))
      saved == saveCollectionToDisk(disk, cols1, c.name, io)
  IN  /\ c.pc = "body"
      /\ io # "ok" => ~faulted
      /\ faulted' = (faulted \/ io # "ok")
      /\ collections' = cols1
      /\ disk' = saved.disk
      /\ call' = [call EXCEPT ![p].pc = "done"]
      /\ ret' = Ret("addDocuments", c.name, <<>>, ~saved.thrown, Undef, io)
      /\ UNCHANGED <<initialized, embInitialized, ragInitialized, extractor, embCache, searchCache>>

NextTasks ==
  \/ \E p \in StoreCallers, c \in Names :
       \E b \in BatchesOf(p) : CallAddDocuments(p, c, b.chunks, b.embeddings)
  \/ \E p \in StoreCallers : InitializeDone(p)
  \/ \E p \in StoreCallers, io \in WriteOutcomes : AddDocumentsBody(p, io)

SpecTasks == InitTasks /\ [][NextTasks]_vars

(***************************************************************************)
(* Queries between changes of the collection: requests without limit and   *)
(* threshold, addDocuments and deleteCollection on the queried collection. *)
(***************************************************************************)
PlainRequests == {r \in Requests : DOMAIN r = {"question", "collection"}}

NextStale ==
  \/ \E request \in PlainRequests, load \in BOOLEAN : Query(request, load, CacheOk)
  \/ \E c \in QueryCollections, b \in Batches : AddDocuments(c, b.chunks, b.embeddings, "ok")
  \/ \E c \in QueryCollections : DeleteCollection(c, "ok")
  \/ \E key \in DOMAIN searchCache : ExpireSearch(key)

SpecStale == InitQuery /\ [][NextStale]_vars

(***************************************************************************)
(* RAGService.indexDocument.  A document is the file given: its id (the    *)
(* uuid of the call), its name, and the passages the chunker makes of its  *)
(* text.  Each action is one call, from its ensureInitialized to its return.*)
(***************************************************************************)
Documents ==
  {[documentId |-> "d1", source |-> "a.txt", isPdf |-> FALSE, textChunks |-> <<"alpha">>],
   [documentId |-> "d2", source |-> "b.pdf", isPdf |-> TRUE, textChunks |-> <<"beta">>]}

\* the text of a passage as the embedding service and the cache see it
TextOf(content) == IF content = "alpha" THEN TextAa ELSE TextBB

\* textChunks.map((content, index) => ({id, content, metadata})); the page of the
\* first ten chunks is 1
DocumentChunks(document) ==
  [i \in 1..Len(document.textChunks) |->
     [id |-> <<document.documentId, "chunk", i - 1>>,
      content |-> document.textChunks[i],
      metadata |-> [source |-> document.source, page |-> "1",
                    documentType |-> IF document.isPdf THEN "pdf" ELSE "txt"]]]

RECURSIVE SetEmbeddings(_, _, _)
\* the cache after generateEmbeddings(texts): the vector of every text that missed is set
SetEmbeddings(cache, texts, i) ==
  IF i > Len(texts) THEN cache
  ELSE IF EmbeddingKey(texts[i]) \in DOMAIN cache THEN SetEmbeddings(cache, texts, i + 1)
  ELSE SetEmbeddings(setEmbedding(cache, texts[i], Extractor(texts[i])), texts, i + 1)

\* the ids of the records the store or its files hold
StoredIds(cols, d) ==
  UNION {{cols[c][i].id : i \in 1..Len(cols[c])} : c \in DOMAIN cols}
    \cup UNION {{JsonParse(d[c].text)[i].id : i \in 1..Len(JsonParse(d[c].text))} :
                  c \in {n \in DOMAIN d : IsJson(d[n])}}

\* where a call ends: "ok" it returns; validateFile returns false; extractText or the
\* metadata read throws; the text is blank; generateEmbeddings throws; copyFileSync
\* throws
Stages == {"ok", "validation", "extraction", "empty", "embedding", "copy"}

\* indexDocument(filePath, collectionName).  load is what the model load does when
\* the service is not initialized (FALSE: it throws and so does the call), stage where
\* the call ends, io what the write of saveCollectionToDisk does.
IndexDocument(document, collectionName, load, stage, io) ==
  LET chunks == DocumentChunks(document)
      texts == [i \in 1..Len(chunks) |-> TextOf(chunks[i].content)]
      embeddings == [i \in 1..Len(chunks) |->
                       IF EmbeddingKey(texts[i]) \in DOMAIN embCache
                         THEN getEmbedding(embCache, texts[i]) ELSE Extractor(texts[i])]
      cols0 == ensureInitialized(initialized, disk, collections)
      collection == IF collectionName \in DOMAIN cols0 THEN cols0[collectionName] ELSE <<>>
      cols1 == MapSet(cols0, collectionName, PushAll(collection, chunks, embeddings, 1))
      saved == saveCollectionToDisk(disk, cols1, collectionName, io)
      stored == stage \in {"ok", "copy"}
  IN  /\ ~load => (~embInitialized /\ stage = "ok")
      /\ \A i \in 1..Len(chunks) : chunks[i].id \notin StoredIds(cols0, disk)
      /\ stage = "embedding" => \E i \in 1..Len(texts) : EmbeddingKey(texts[i]) \notin DOMAIN embCache
      /\ io # "ok" => (load /\ stored /\ ~faulted)
      /\ faulted' = (faulted \/ io # "ok")
      /\ IF ~load
           THEN /\ ret' = Ret("indexDocument", collectionName, <<document, "initialize">>,
                              FALSE, Undef, io)
                /\ UNCHANGED <<disk, collections, initialized, embInitialized,
                               ragInitialized, extractor, embCache>>
           ELSE /\ embInitialized' = TRUE
                /\ ragInitialized' = TRUE
                /\ extractor' = "model"
                /\ ret' = Ret("indexDocument", collectionName, <<document, stage>>,
                              stage = "ok",
                              IF stage = "ok"
                                THEN [documentId |-> document.documentId,
                                      chunksCount |-> Len(chunks)]
                                ELSE Undef,
                              io)
                /\ IF stored
                     THEN /\ embCache' = SetEmbeddings(embCache, texts, 1)
                          /\ initialized' = TRUE
                          /\ collections' = cols1
                          /\ disk' = saved.disk
                     ELSE UNCHANGED <<disk, collections, initialized, embCache>>
      /\ UNCHANGED <<call, searchCache>>

NextIndex ==
  \/ \E document \in Documents, c \in Names, load \in BOOLEAN, stage \in Stages,
        io \in WriteOutcomes : IndexDocument(document, c, load, stage, io)
  \/ \E c \in Names : DeleteCollection(c, "ok")

SpecIndex == InitQuery /\ [][NextIndex]_vars

(***************************************************************************)
(* Initialization of the service under concurrent requests.  A caller is   *)
(* a request in indexDocument or query; a step runs it from one await to   *)
(* the next: ensureInitialized, the model load, the rest of initialize,    *)
(* and the body of the call, which uses the extractor.                     *)
(***************************************************************************)
Requesters == {"first", "second", "third"}
Operations == {"indexDocument", "query"}

InitRequests ==
  /\ embInitialized = FALSE
  /\ ragInitialized = FALSE
  /\ extractor = Null
  /\ embCache = EmptyMap
  /\ call = [p \in Requesters |-> IdleCall]
  /\ disk = [c \in Names |-> NoFile]
  /\ collections = EmptyMap
  /\ initialized = FALSE
  /\ faulted = FALSE
  /\ ret = Ret("new", Null, <<>>, TRUE, Undef, "none")
  /\ searchCache = EmptyMap

\* indexDocument / query is called: ensureInitialized returns when the service is
\* initialized; otherwise initialize() awaits embeddings.initialize(), which returns
\* when the model is initialized and starts a model load when it is not
CallOperation(p, operation) ==
  /\ call[p].pc \in {"idle", "done", "failed"}
  /\ call' = [call EXCEPT ![p] =
                [IdleCall EXCEPT !.pc = IF ragInitialized THEN "ready"
                                        ELSE IF embInitialized THEN "loaded"
                                        ELSE "loading",
                                 !.kind = operation]]
  /\ UNCHANGED <<embInitialized, ragInitialized, extractor, embCache, searchCache, storeVars, ret>>

\* pipeline('feature-extraction', model) of request p settles; initialize() of the
\* service rethrows the failure as "Initialization failed: ..."
PipelineDone(p, ok) ==
  /\ call[p].pc = "loading"
  /\ IF ok
       THEN /\ extractor' = "model"
            /\ embInitialized' = TRUE
            /\ call' = [call EXCEPT ![p].pc = "loaded"]
       ELSE /\ call' = [call EXCEPT ![p].pc = "failed",
                                        ![p].error = Thrown("Initialization failed",
                                                            "Embedding model initialization failed")]
            /\ UNCHANGED <<extractor, embInitialized>>
  /\ UNCHANGED <<ragInitialized, embCache, searchCache, storeVars, ret>>

\* after await this.embeddings.initialize(): ensureDirectories(), which does not throw,
\* and this.initialized = true
InitializeRest(p) ==
  /\ call[p].pc = "loaded"
  /\ ragInitialized' = TRUE
  /\ call' = [call EXCEPT ![p].pc = "ready"]
  /\ UNCHANGED <<embInitialized, extractor, embCache, searchCache, storeVars, ret>>

\* the body after await ensureInitialized(): it calls the extractor it finds
RunBody(p) ==
  /\ call[p].pc = "ready"
  /\ call' = [call EXCEPT ![p].pc = "done", ![p].result = <<extractor>>]
  /\ UNCHANGED <<embInitialized, ragInitialized, extractor, embCache, searchCache, storeVars, ret>>

NextRequests ==
  \/ \E p \in Requesters, operation \in Operations : CallOperation(p, operation)
  \/ \E p \in Requesters, ok \in BOOLEAN : PipelineDone(p, ok)
  \/ \E p \in Requesters : InitializeRest(p)
  \/ \E p \in Requesters : RunBody(p)

SpecRequests == InitRequests /\ [][NextRequests]_vars

(***************************************************************************)
(* More claims about the store.                                            *)
(***************************************************************************)
\* the store treats the name as absent: not listed, no stats, nothing found
TreatedAsAbsent(c) ==
  /\ c \notin DOMAIN collections
  /\ c \notin listCollections(collections)
  /\ getCollectionStats(collections, c) = Null
  /\ \A q \in StoreQueries, l \in StoreLimits : search(collections, c, q, l).val = <<>>

\* C18: a backing file that does not parse is skipped by the load.  The step that
\* loads the directory brings in the collection of every file that parses (the one the
\* call itself then changes aside), and as long as a file is unparseable, that is until
\* an addDocuments to its name overwrites it, its collection is treated as absent.
C18_CorruptFileIsSkipped ==
  /\ [](initialized => \A c \in Names : disk[c] = Corrupt => TreatedAsAbsent(c))
  /\ [][(~initialized /\ initialized') =>
          \A c \in Names :
             (/\ IsJson(disk[c])
              /\ ~(ret'.op \in {"addDocuments", "deleteCollection"} /\ ret'.name = c)) =>
                /\ c \in DOMAIN collections'
                /\ collections'[c] = JsonParse(disk[c].text)]_vars

\* the collections the store works with: its map, loaded first if it was not
LoadedCollections == ensureInitialized(initialized, disk, collections)

\* a name is listed exactly when it has stats, and these count its records
ListedIffStats ==
  \A c \in Names :
     IF c \in listCollections(LoadedCollections)
       THEN getCollectionStats(LoadedCollections, c) =
              [name |-> c, count |-> Len(LoadedCollections[c])]
       ELSE getCollectionStats(LoadedCollections, c) = Null

\* C19: in every state a name is listed exactly when it has stats, which
\* count its records; getCollectionStats and getCollectionInfo of a name the store does
\* not hold return null and never throw.
C19_ListedIffStatsNeverThrows ==
  /\ ListedIffStats
  /\ (ret.op \in {"getCollectionStats", "getCollectionInfo"}
        /\ ret.name \notin DOMAIN LoadedCollections) =>
       (ret.ok /\ ret.val = Null)

\* a name with no path separator in it that is not '..' or '.'
IsSafeName(name) == Len(name) = 1 /\ name[1] \notin {"..", "."}

\* C20: the names the store holds have files of their own, and each path that
\* addDocuments or deleteCollection has built is the file of a name without separators
\* and without '..', directly in the storage directory.
C20_NameIdentifiesOneSafeFile ==
  /\ \A a, b \in DOMAIN collections : a # b => filePath(a) # filePath(b)
  /\ ret.op \in {"addDocuments", "deleteCollection"} =>
       /\ IsSafeName(ret.name)
       /\ ret.args[1].dir = filePath(<<"t">>).dir

\* the records the completed call of p has added to collection c
AddedBy(p, c) ==
  IF call[p].pc = "done" /\ call[p].name = c
    THEN [i \in 1..Len(call[p].chunks) |-> StoredDocument(call[p].chunks[i], call[p].embeddings[i])]
    ELSE <<>>

\* the records of collection c are what it held before, followed by the records of the
\* completed calls, each call's records together and in the order given
HoldsEveryCall(records, c) ==
  \E prior \in {<<>>, <<PriorRecord>>} :
     \/ records = prior \o AddedBy("first", c) \o AddedBy("second", c)
     \/ records = prior \o AddedBy("second", c) \o AddedBy("first", c)

\* C26: when no call is in flight, each collection that a completed addDocuments
\* has added to holds, in memory and in its backing file, every record of every such
\* call, each call's records contiguous and in input order.
C26_NoRecordLost ==
  (\A p \in StoreCallers : call[p].pc \in {"idle", "done"}) =>
     \A c \in Names :
        (\E p \in StoreCallers : call[p].pc = "done" /\ call[p].name = c) =>
           /\ c \in DOMAIN collections
           /\ HoldsEveryCall(collections[c], c)
           /\ IsJson(disk[c])
           /\ SameCollection(collections[c], JsonParse(disk[c].text))

\* the sources a request gives when they are computed over the collections cols
FreshSources(request, cols) ==
  FilterByThreshold(search(cols, request.collection, Extractor(request.question),
                           LimitOrMax(request)).val,
                    ThresholdOrDefault(request))

\* C27: the sources of a query that has returned are those computed over the
\* collection as it is: none after a deleteCollection, those over all records after an
\* addDocuments, also when the question was asked before the change.  (Every call but
\* query sets ret, so ret is a query's only while the collection is as the query
\* found it.)
C27_QueryReflectsCollection ==
  (ret.op = "query" /\ ret.ok) =>
     ret.val.sources = FreshSources(ret.args[1], LoadedCollections)

\* no record of the document is in the records
HoldsNone(records, document) ==
  \A i \in 1..Len(records) : \A j \in 1..Len(DocumentChunks(document)) :
     records[i].id # DocumentChunks(document)[j].id

\* C28: when an indexDocument call has thrown, the collection it was given holds
\* no record of its document, in memory or in its backing file.
C28_FailedIndexStoresNothing ==
  (ret.op = "indexDocument" /\ ~ret.ok) =>
     /\ ret.name \in DOMAIN LoadedCollections =>
          HoldsNone(LoadedCollections[ret.name], ret.args[1])
     /\ IsJson(disk[ret.name]) => HoldsNone(JsonParse(disk[ret.name].text), ret.args[1])

\* the collections the store works with when names are paths
LoadedPaths == ensureInitializedPaths(initialized, disk, collections)

\* collection d is the same before and after the step: in memory (held or not, its
\* records and their order) and in its backing file
Untouched(d) ==
  /\ (d \in DOMAIN LoadedPaths) <=> (d \in DOMAIN LoadedPaths')
  /\ d \in DOMAIN LoadedPaths => LoadedPaths'[d] = LoadedPaths[d]
  /\ disk'[filePath(d)] = disk[filePath(d)]

\* C29: addDocuments(c, ...) and deleteCollection(c) leave every other collection
\* the store holds as it was, in memory and in its backing file; search, listCollections and
\* getCollectionStats leave every collection as it was.
C29_OtherCollectionsUntouched ==
  [][/\ ret'.op \in {"addDocuments", "deleteCollection"} =>
          \A d \in DOMAIN LoadedPaths \cup DOMAIN LoadedPaths' :
             d # ret'.name => Untouched(d)
     /\ ret'.op \in {"search", "listCollections", "getCollectionStats"} =>
          \A d \in DOMAIN LoadedPaths \cup DOMAIN LoadedPaths' : Untouched(d)]_vars

\* C30: the service is marked initialized only if the embedding model is, and the
\* embedding model only if its extractor is set; an initialization that fails leaves
\* both unmarked and fails the request that triggered it; a request that finds the
\* service unmarked initializes before its body, and no body runs without the model
InitializationFails(p) == call[p].pc = "loading" /\ call'[p].pc = "failed"

C30_InitializedOnlyWithModel ==
  /\ [](/\ ragInitialized => embInitialized
        /\ embInitialized => extractor = "model")
  /\ [][\A p \in Requesters :
          /\ InitializationFails(p) =>
               /\ ~ragInitialized' /\ ~embInitialized'
               /\ call'[p].error # NoError
          /\ (call[p].pc \in {"idle", "done", "failed"} /\ call'[p].pc = "ready") =>
               ragInitialized
          /\ call'[p].pc = "done" => call'[p].result = <<"model">>]_vars
====
